---- MODULE Spec2Model ----
(***************************************************************************)
(* Model of the memory engine: the relational store (users, sessions,      *)
(* chat_logs, memory_facts), the ingestion service, the worker tasks       *)
(* (extraction, optimization, decay, consolidation) and the read           *)
(* endpoints.                                                              *)
(*                                                                         *)
(* Conventions                                                             *)
(*  - a row's id is its index in its table (ids are fresh UUIDs in the     *)
(*    code; rows are never physically removed);                            *)
(*  - NULL is 0 for ids and timestamps, NoSlot for slot_hint, <<>> for an  *)
(*    embedding;                                                           *)
(*  - confidences are in hundredths (0.75 is 75);                          *)
(*  - the clock is read in whole days; every job or request reads a value  *)
(*    strictly later than the one before it; rows written by one flush get *)
(*    the same day and keep their insertion order below the day;           *)
(*  - a fact's content is the sequence of its lower-cased words together   *)
(*    with the case of its first letter, which is all normalize_fact       *)
(*    looks at.                                                            *)
(***************************************************************************)
EXTENDS Integers, Sequences, FiniteSets, TLC

VARIABLES
    users,         \* users table: user id -> api_key_hash (NULL after revoke)
    sessions,      \* sessions table: session id -> user_id
    chat_logs,     \* chat_logs table: sequence of message rows
    memory_facts,  \* memory_facts table: sequence of fact rows
    job_queue,     \* jobs enqueued on the queue: sequence of [function, arg]
    workers,       \* jobs in flight in the worker pool
    rate_limits,   \* Redis counters of the rate limiter: <<hash, minute>> -> count, expiry
    now,           \* the wall clock (days)
    nops,          \* number of operations performed so far
    last           \* the outcome of the operation performed last

vars == <<users, sessions, chat_logs, memory_facts, job_queue, workers, rate_limits,
         now, nops, last>>

(***************************************************************************)
(* Bounds of the model                                                     *)
(***************************************************************************)
MaxFacts == 3      \* rows of memory_facts
MaxOps == 3        \* operations in a behaviour
MaxCands == 2      \* facts in one LLM extraction response
MaxMsgs == 6       \* rows of chat_logs

NULL == 0
NoSlot == "NULL"

(***************************************************************************)
(* app/models: enumerations                                                *)
(***************************************************************************)
USER_PREFERENCE == "user_preference"
BIOGRAPHICAL == "biographical"
WORK_CONTEXT == "work_context"
RELATIONSHIP == "relationship"
LEARNING == "learning"
FactCategory == <<USER_PREFERENCE, BIOGRAPHICAL, WORK_CONTEXT, RELATIONSHIP, LEARNING>>

CURRENT == "current"
PAST == "past"
FUTURE == "future"
RECURRING == "recurring"

(***************************************************************************)
(* Program constants                                                       *)
(***************************************************************************)
MIN_CONFIDENCE_TO_SAVE == 50
FUZZY_DUPLICATE_THRESHOLD == 75
SUPERSEDE_CONFIDENCE_BAND == 15
WINDOW_SIZE == 5
SEMANTIC_DUPLICATE_THRESHOLD == 92
PROMOTE_REFRESH_DAYS == 7
PROMOTE_MIN_CONFIDENCE == 70
SUMMARY_MIN_CONFIDENCE == 75
SUMMARY_MAX_FACTS == 30
SUMMARY_CONFIDENCE == 100
DECAY_CUTOFF_DAYS == 30
DECAY_FACTOR_TENTHS == 9
DECAY_FLOOR == 10
OPTIMIZATION_MAX_FACTS == 200

(***************************************************************************)
(* Contents.  Text(cap, words): cap says whether the first letter is upper *)
(* case.                                                                   *)
(***************************************************************************)
Text(cap, words) == [cap |-> cap, words |-> words]

WorksAtGoogle == Text(TRUE, <<"works", "at", "google">>)
AcmeCorp == Text(TRUE, <<"acme", "corp">>)
WorksAtAcmeCorp == Text(TRUE, <<"works", "at", "acme", "corp">>)
SeniorEngineer == Text(FALSE, <<"senior", "engineer">>)
IsASeniorEngineer == Text(TRUE, <<"is", "a", "senior", "engineer">>)
ProductManager == Text(FALSE, <<"product", "manager">>)
EmployedByInitech == Text(TRUE, <<"employed", "by", "initech">>)
LivesInSF == Text(TRUE, <<"lives", "in", "sf">>)
ResidesInSanFrancisco == Text(TRUE, <<"resides", "in", "san", "francisco">>)
PreviouslyLivedInDallas == Text(TRUE, <<"previously", "lived", "in", "dallas">>)
PrefersDarkMode == Text(TRUE, <<"prefers", "dark", "mode">>)
LearningRustBasics == Text(TRUE, <<"learning", "rust", "basics">>)
ProfileText == Text(TRUE, <<"they", "live", "in", "sf", "key", "traits", "engineer">>)
NoText == Text(FALSE, << >>)

\* Queries
WhereDoILive == Text(TRUE, <<"where", "do", "i", "live">>)
WhoAmIAndWhereDoIWork == Text(TRUE, <<"who", "am", "i", "and", "where", "do", "i", "work">>)
Rust == Text(TRUE, <<"rust">>)
WhoAmIAndWhatDoILike == Text(TRUE, <<"who", "am", "i", "and", "what", "do", "i", "like">>)

Min(S) == CHOOSE x \in S : \A y \in S : x <= y
Max(S) == CHOOSE x \in S : \A y \in S : x >= y
Range(s) == {s[i] : i \in 1..Len(s)}

StartsWith(words, prefix) ==
    /\ Len(words) >= Len(prefix)
    /\ SubSeq(words, 1, Len(prefix)) = prefix

(***************************************************************************)
(* app/worker/tasks.py: pure helpers of the extraction task                *)
(***************************************************************************)
\* rapidfuzz's fuzz.WRatio on the contents of the model (0..100, rounded).
\* Equal strings score 100; two strings whose lengths differ by a factor of
\* 1.5 or more and that share a word score 0.95 * 0.9 * 100; the remaining
\* pairs of the vocabulary score below 70.
WRatioHigh ==
    { {LivesInSF, ResidesInSanFrancisco},
      {LivesInSF, PreviouslyLivedInDallas},
      {LivesInSF, ProfileText},
      {ResidesInSanFrancisco, ProfileText},
      {IsASeniorEngineer, ProfileText} }

\* WRatio that scores every pair low, equal strings included.
WRatio_low(a, b) == 45

WRatio(a, b) ==
    IF a = b THEN 100
    ELSE IF {a, b} \in WRatioHigh THEN 86
    ELSE IF {a, b} = {WorksAtGoogle, WorksAtAcmeCorp} THEN 66
    ELSE 45

_is_fuzzy_duplicate(existing_texts, candidate) ==
    \E i \in 1..Len(existing_texts) :
        WRatio(existing_texts[i], candidate) >= FUZZY_DUPLICATE_THRESHOLD

temporal_prefixes ==
    { <<"previously">>, <<"used", "to">>, <<"formerly">>, <<"was", "a">>,
      <<"were", "a">>, <<"planning", "to">>, <<"will">>, <<"going", "to">>,
      <<"might">>, <<"may">>, <<"usually">>, <<"often">>, <<"sometimes">>,
      <<"every">>, <<"regularly">> }

biographical_prefixes ==
    { <<"lives", "in">>, <<"born", "in">>, <<"from">>, <<"age">>, <<"lived", "in">> }

work_prefixes ==
    { <<"works">>, <<"is", "a">>, <<"is", "an">>, <<"employed">>, <<"worked">> }

normalize_fact(content, category) ==
    LET words == content.words IN
    IF \E p \in temporal_prefixes : StartsWith(words, p) THEN content
    ELSE IF category = BIOGRAPHICAL THEN
        IF \E p \in biographical_prefixes : StartsWith(words, p) THEN content
        ELSE IF Len(words) > 0 /\ words[1] \in {"in", "at"}
            THEN Text(TRUE, <<"lives">> \o words)
        ELSE IF \E i \in 2..(Len(words) - 1) : words[i] = "in" THEN content
        ELSE Text(TRUE, <<"lives", "in">> \o words)
    ELSE IF category = WORK_CONTEXT THEN
        IF \E p \in work_prefixes : StartsWith(words, p) THEN content
        ELSE IF Len(words) > 0 /\ content.cap THEN Text(TRUE, <<"works", "at">> \o words)
        ELSE Text(TRUE, <<"is", "a">> \o words)
    ELSE content

\* _same_slot that compares the category only.
_same_slot_category_only(fact, new_category, new_slot) ==
    fact.category = new_category

_same_slot(fact, new_category, new_slot) ==
    /\ fact.category = new_category
    /\ \/ fact.slot_hint = NoSlot
       \/ new_slot = NoSlot
       \/ fact.slot_hint = new_slot

_supersedable_category(category) ==
    category \in {BIOGRAPHICAL, RELATIONSHIP, WORK_CONTEXT}

\* _should_supersede without the confidence band.
_should_supersede_always(existing, incoming_conf) == TRUE

_should_supersede(existing, incoming_conf) ==
    IF existing.superseded_by # NULL THEN TRUE
    ELSE incoming_conf >= existing.confidence_score - SUPERSEDE_CONFIDENCE_BAND

(***************************************************************************)
(* The LLM gateway (external).  A message states facts; the structured     *)
(* chat call returns ExtractedFact values for facts stated in the window.  *)
(* The embedding call maps a content to a vector (here of dimension 2).    *)
(***************************************************************************)
ExtractedFact(category, slot_hint, temporal_state, content, confidence) ==
    [category |-> category, slot_hint |-> slot_hint, temporal_state |-> temporal_state,
     content |-> content, confidence |-> confidence]

SaysGoogle == "I work at Google as a senior engineer"
SaysAcme == "Actually I just joined Acme Corp"
SaysInitech == "Employed by Initech these days"
SaysSF == "I live in SF"
SaysSanFrancisco == "I reside in San Francisco"
SaysDallas == "I used to live in Dallas"
SaysLikes == "I prefer dark mode and started learning Rust"
SaysUnsure == "Maybe I am still at Google, or a product manager by now"
SaysThanks == "Thanks, that helps"

Utterances ==
    {SaysGoogle, SaysAcme, SaysInitech, SaysSF, SaysSanFrancisco, SaysDallas, SaysLikes,
     SaysUnsure, SaysThanks}

StatedFacts(text) ==
    CASE text = SaysGoogle ->
            << ExtractedFact(WORK_CONTEXT, "employer", CURRENT, WorksAtGoogle, 90),
               ExtractedFact(WORK_CONTEXT, "role", CURRENT, SeniorEngineer, 60) >>
      [] text = SaysAcme ->
            << ExtractedFact(WORK_CONTEXT, "employer", CURRENT, AcmeCorp, 70) >>
      [] text = SaysInitech ->
            << ExtractedFact(WORK_CONTEXT, NoSlot, CURRENT, EmployedByInitech, 80) >>
      [] text = SaysSF ->
            << ExtractedFact(BIOGRAPHICAL, "location", CURRENT, LivesInSF, 70) >>
      [] text = SaysSanFrancisco ->
            << ExtractedFact(BIOGRAPHICAL, "location", CURRENT, ResidesInSanFrancisco, 90) >>
      [] text = SaysDallas ->
            << ExtractedFact(BIOGRAPHICAL, "location", PAST, PreviouslyLivedInDallas, 80) >>
      [] text = SaysLikes ->
            << ExtractedFact(USER_PREFERENCE, "tech", CURRENT, PrefersDarkMode, 50),
               ExtractedFact(LEARNING, "topic", CURRENT, LearningRustBasics, 40) >>
      [] text = SaysUnsure ->
            << ExtractedFact(WORK_CONTEXT, "employer", CURRENT, WorksAtGoogle, 40),
               ExtractedFact(WORK_CONTEXT, "role", CURRENT, ProductManager, 45) >>
      [] OTHER -> << >>

embed_text(content) ==
    CASE content = WorksAtGoogle -> <<10, 0>>
      [] content = WorksAtAcmeCorp -> <<0, 10>>
      [] content = IsASeniorEngineer -> <<7, 7>>
      [] content = EmployedByInitech -> <<-10, 2>>
      [] content = LivesInSF -> <<10, 3>>
      [] content = ResidesInSanFrancisco -> <<10, 4>>
      [] content = PreviouslyLivedInDallas -> <<3, 10>>
      [] content = PrefersDarkMode -> <<-5, 5>>
      [] content = LearningRustBasics -> <<-5, -5>>
      [] content = WhereDoILive -> <<9, 4>>
      [] content = WhoAmIAndWhereDoIWork -> <<1, 6>>
      [] content = Rust -> <<-4, -5>>
      [] OTHER -> <<5, 5>>

(***************************************************************************)
(* app/models: rows                                                        *)
(***************************************************************************)
ChatLog(session_id, role, content, timestamp) ==
    [session_id |-> session_id, role |-> role, content |-> content, timestamp |-> timestamp]

\* A MemoryFact as the constructor leaves it; created_at and last_refreshed_at
\* get their default (the clock) when the row is flushed.
MemoryFact(user_id, category, content, confidence_score, slot_hint, temporal_state, source_message_id, is_essential) ==
    [user_id |-> user_id, category |-> category, content |-> content,
     confidence_score |-> confidence_score, source_message_id |-> source_message_id,
     slot_hint |-> slot_hint, temporal_state |-> temporal_state,
     is_essential |-> is_essential, created_at |-> NULL, embedding |-> << >>,
     superseded_by |-> NULL, expires_at |-> NULL, last_refreshed_at |-> NULL]

FactIds(facts) == 1..Len(facts)

IsActive(fact) == fact.superseded_by = NULL /\ fact.expires_at = NULL

ActiveIds(facts, user_id) ==
    {id \in FactIds(facts) : facts[id].user_id = user_id /\ IsActive(facts[id])}

\* The columns a worker updates on rows it has loaded.
UpdatedColumns ==
    {"content", "confidence_score", "is_essential", "superseded_by", "last_refreshed_at"}

\* The unit of work writes, for each loaded row, the columns whose value in
\* memory (objs) differs from the value loaded (snap); every other column of
\* the table keeps the value the database holds at the time of the flush.
FlushUpdates(db, snap, objs, loaded) ==
    [id \in FactIds(db) |->
        IF id \notin loaded THEN db[id]
        ELSE [col \in DOMAIN db[id] |->
                 IF col \in UpdatedColumns /\ objs[id][col] # snap[id][col]
                 THEN objs[id][col] ELSE db[id][col]]]

\* All orderings of a finite set, as sequences.
Orderings(S) ==
    {seq \in [1..Cardinality(S) -> S] : \A i, j \in 1..Cardinality(S) : i # j => seq[i] # seq[j]}

(***************************************************************************)
(* app/worker/tasks.py: extract_facts_task                                 *)
(***************************************************************************)
\* The last WINDOW_SIZE messages of a session, oldest first (ids).
SessionWindow(logs, session_id) ==
    LET ids == {m \in 1..Len(logs) : logs[m].session_id = session_id}
        newer(m) == Cardinality({k \in ids : logs[k].timestamp > logs[m].timestamp
                                              \/ (logs[k].timestamp = logs[m].timestamp /\ k > m)})
        kept == {m \in ids : newer(m) < WINDOW_SIZE}
    IN [i \in 1..Cardinality(kept) |->
           CHOOSE m \in kept : Cardinality(kept) - newer(m) = i]

RECURSIVE StatedInWindow(_, _, _)
StatedInWindow(logs, window, i) ==
    IF i > Len(window) THEN << >>
    ELSE StatedFacts(logs[window[i]].content) \o StatedInWindow(logs, window, i + 1)

\* What chat_structured may return for a window: up to MaxCands of the facts
\* stated in it, in any order.
ExtractionResponses(logs, window) ==
    LET stated == StatedInWindow(logs, window, 1)
        picks == UNION {Orderings(S) : S \in {T \in SUBSET (1..Len(stated)) : Cardinality(T) <= MaxCands}}
    IN {[k \in 1..Len(p) |-> stated[p[k]]] : p \in picks}

\* The rows extraction loads: the user's facts that are not expired.
ExistingFactIds(facts, user_id) ==
    {id \in FactIds(facts) : facts[id].user_id = user_id /\ facts[id].expires_at = NULL}

\* The duplicate search that finds nothing.
FirstDuplicate_none(objs, existing, content) == NULL

FirstDuplicate(objs, existing, content) ==
    LET hits == {k \in 1..Len(existing) :
                    _is_fuzzy_duplicate(<<objs[existing[k]].content>>, content)}
    IN IF hits = {} THEN NULL ELSE existing[Min(hits)]

\* A loop that skips no candidate.
SkipLowConfidence_never(extracted) == FALSE

\* if extracted.confidence < MIN_CONFIDENCE_TO_SAVE: continue
SkipLowConfidence(extracted) == extracted.confidence < MIN_CONFIDENCE_TO_SAVE

\* A refresh that also makes the fact current again.
RefreshDuplicate_revived(duplicate_match, confidence, t) ==
    [duplicate_match EXCEPT !.last_refreshed_at = t,
                            !.confidence_score = Max({@, confidence}),
                            !.superseded_by = NULL]

\* The existing fact a candidate duplicates is refreshed in place.
RefreshDuplicate(duplicate_match, confidence, t) ==
    [duplicate_match EXCEPT !.last_refreshed_at = t,
                            !.confidence_score = Max({@, confidence})]

\* The loop over extracted_facts.  st = [objs, pending, supersede_queue];
\* existing is existing_facts (ids, in the order the query returned them).
RECURSIVE StageExtracted(_, _, _, _, _, _, _)
StageExtracted(extracted_facts, i, existing, user_id, source_message_id, t, st) ==
    IF i > Len(extracted_facts) THEN st
    ELSE
      LET extracted == extracted_facts[i] IN
      IF SkipLowConfidence(extracted)
      THEN StageExtracted(extracted_facts, i + 1, existing, user_id, source_message_id, t, st)
      ELSE
        LET content == normalize_fact(extracted.content, extracted.category)
            duplicate_match == FirstDuplicate(st.objs, existing, content)
        IN
        IF duplicate_match # NULL
        THEN StageExtracted(extracted_facts, i + 1, existing, user_id, source_message_id, t,
                [st EXCEPT !.objs[duplicate_match] =
                               RefreshDuplicate(@, extracted.confidence, t)])
        ELSE
          LET new_fact == MemoryFact(user_id, extracted.category, content,
                                     extracted.confidence, extracted.slot_hint,
                                     extracted.temporal_state, source_message_id, FALSE)
              same == SelectSeq(existing,
                         LAMBDA id : _same_slot(st.objs[id], extracted.category,
                                                extracted.slot_hint))
          IN StageExtracted(extracted_facts, i + 1, existing, user_id, source_message_id, t,
                [st EXCEPT !.pending = Append(@, new_fact),
                           !.supersede_queue =
                               IF _supersedable_category(extracted.category)
                               THEN @ \o same ELSE @])

\* newest: the first pending fact in the slot of an existing fact (index, or NULL).
NewestInSlot(pending, fact) ==
    LET hits == {k \in 1..Len(pending) :
                    _same_slot(fact, pending[k].category, pending[k].slot_hint)}
    IN IF hits = {} THEN NULL ELSE Min(hits)

\* The supersession loop after the flush; base is the id before the first new row.
ApplySupersessions(objs, pending, supersede_queue, base) ==
    [id \in DOMAIN objs |->
        LET newest == NewestInSlot(pending, objs[id]) IN
        IF /\ id \in Range(supersede_queue)
           /\ newest # NULL
           /\ _should_supersede(objs[id], pending[newest].confidence_score)
        THEN [objs[id] EXCEPT !.superseded_by = base + newest]
        ELSE objs[id]]

\* Embedding of the pending facts, the flush and the commit.
\* embedded: whether embed_texts succeeded.
\* settings.EMBEDDING_DIM (default 1536): the length of a vector embed_text
\* returns and of the column memory_facts.embedding.
EMBEDDING_DIM == 2

\* An extraction whose failed embedding call yields no list to zip with.
embed_pending_lost(pending, embedded) ==
    IF embedded THEN [k \in 1..Len(pending) |-> embed_text(pending[k].content)] ELSE << >>

\* try: embeddings = await llm_provider.embed_texts([...])
\* except Exception: embeddings = [None] * len(pending_facts)
embed_pending(pending, embedded) ==
    [k \in 1..Len(pending) |-> IF embedded THEN embed_text(pending[k].content) ELSE << >>]

ExtractionCommit(db, snap, existing, st, embedded, t) ==
    LET base == Len(db)
        embeddings == embed_pending(st.pending, embedded)
        \* for fact, embedding in zip(pending_facts, embeddings)
        rows == [k \in 1..Min({Len(st.pending), Len(embeddings)}) |->
                    [st.pending[k] EXCEPT
                        !.embedding = embeddings[k],
                        !.created_at = t,
                        !.last_refreshed_at = t]]
        objs == IF Len(st.pending) > 0
                THEN ApplySupersessions(st.objs, st.pending, st.supersede_queue, base)
                ELSE st.objs
    IN FlushUpdates(db, snap, objs, Range(existing)) \o rows

(***************************************************************************)
(* app/worker/tasks.py: consolidation, optimization and decay              *)
(***************************************************************************)
\* The ids of S as a sequence, ordered by the strict total order before
\* (before[a, b]: a comes before b).
SortBy(S, before) ==
    [i \in 1..Cardinality(S) |->
        CHOOSE x \in S : Cardinality({y \in S : before[y, x]}) = i - 1]

\* ORDER BY created_at DESC (rows of one day: the later insert first).
CreatedDesc(facts, a, b) ==
    \/ facts[a].created_at > facts[b].created_at
    \/ (facts[a].created_at = facts[b].created_at /\ a > b)

RECURSIVE DotFrom(_, _, _)
DotFrom(a, b, i) == IF i > Len(a) \/ i > Len(b) THEN 0 ELSE a[i] * b[i] + DotFrom(a, b, i + 1)

\* _cosine_similarity(a, b) >= pct / 100, in integer arithmetic.
CosineAtLeast(a, b, pct) ==
    LET dot == DotFrom(a, b, 1)
        norm_a2 == DotFrom(a, a, 1)
        norm_b2 == DotFrom(b, b, 1)
    IN IF norm_a2 = 0 \/ norm_b2 = 0 THEN 0 >= pct
       ELSE dot >= 0 /\ 10000 * dot * dot >= pct * pct * norm_a2 * norm_b2

SimilarPair(facts, a, b, threshold) ==
    /\ facts[a].category = facts[b].category
    /\ CosineAtLeast(facts[a].embedding, facts[b].embedding, threshold)

RECURSIVE Component(_, _, _, _)
Component(facts, pool, seen, threshold) ==
    LET more == {b \in pool \ seen : \E a \in seen : SimilarPair(facts, a, b, threshold)}
    IN IF more = {} THEN seen ELSE Component(facts, pool, seen \cup more, threshold)

\* find(x): the root of x (the path compression of the code changes
\* parent, never a root).
RECURSIVE find(_, _)
find(parent, x) == IF parent[x] # x THEN find(parent, parent[x]) ELSE x

\* union(x, y): parent[find(x)] = find(y) when the roots differ.
union(parent, x, y) ==
    LET px == find(parent, x)
        py == find(parent, y)
    IN IF px # py THEN [parent EXCEPT ![px] = py] ELSE parent

\* for i in range(n): for j in range(i + 1, n): union(i, j) when the two
\* facts have one category and similarity >= threshold.
RECURSIVE ScanPairs(_, _, _, _, _, _)
ScanPairs(facts, listed, threshold, parent, i, j) ==
    IF i > Len(listed) THEN parent
    ELSE IF j > Len(listed) THEN ScanPairs(facts, listed, threshold, parent, i + 1, i + 2)
    ELSE ScanPairs(facts, listed, threshold,
                   IF SimilarPair(facts, listed[i], listed[j], threshold)
                   THEN union(parent, i, j) ELSE parent,
                   i, j + 1)

\* A clustering that also returns the facts that are similar to no other.
GroupsKept_all(groups) == groups

\* return [cluster for cluster in clusters.values() if len(cluster) >= 2]
GroupsKept(groups) == {c \in groups : Cardinality(c) >= 2}

\* _find_semantic_duplicate_clusters(facts, threshold): the facts with an
\* embedding, in the order loaded, grouped by the root of the union-find.
_find_semantic_duplicate_clusters(facts, ids, threshold) ==
    LET with == {id \in ids : facts[id].embedding # << >>}
        facts_with_embeddings == SortBy(with, [a, b \in with |-> CreatedDesc(facts, a, b)])
        n == Len(facts_with_embeddings)
        parent == ScanPairs(facts, facts_with_embeddings, threshold,
                            [k \in 1..n |-> k], 1, 2)
    IN IF n < 2 THEN {}
       ELSE GroupsKept({{facts_with_embeddings[k] : k \in {m \in 1..n : find(parent, m) = r}} :
                           r \in {find(parent, m) : m \in 1..n}})

\* The order the docstring of _merge_duplicate_cluster gives: highest
\* confidence, most recent on a tie, essential last.
MergeBefore_docstring(objs, all_facts, a, b) ==
    LET pos(x) == CHOOSE i \in 1..Len(all_facts) : all_facts[i] = x IN
    \/ objs[a].confidence_score > objs[b].confidence_score
    \/ /\ objs[a].confidence_score = objs[b].confidence_score
       /\ \/ objs[a].created_at > objs[b].created_at
          \/ /\ objs[a].created_at = objs[b].created_at
             /\ \/ (objs[a].is_essential /\ ~objs[b].is_essential)
                \/ (objs[a].is_essential = objs[b].is_essential /\ pos(a) < pos(b))

\* sorted(cluster, key = (is_essential, confidence_score, created_at), reverse = True):
\* a sorts before b; equal keys keep the order of all_facts.
MergeBefore(objs, all_facts, a, b) ==
    LET pos(x) == CHOOSE i \in 1..Len(all_facts) : all_facts[i] = x IN
    \/ (objs[a].is_essential /\ ~objs[b].is_essential)
    \/ /\ objs[a].is_essential = objs[b].is_essential
       /\ \/ objs[a].confidence_score > objs[b].confidence_score
          \/ /\ objs[a].confidence_score = objs[b].confidence_score
             /\ \/ objs[a].created_at > objs[b].created_at
                \/ (objs[a].created_at = objs[b].created_at /\ pos(a) < pos(b))

ClusterWinner(objs, all_facts, cluster) ==
    SortBy(cluster, [a, b \in cluster |-> MergeBefore(objs, all_facts, a, b)])[1]

\* _merge_duplicate_cluster that marks the winner as well.
_merge_duplicate_cluster_all(objs, all_facts, cluster) ==
    LET winner == ClusterWinner(objs, all_facts, cluster) IN
    [id \in DOMAIN objs |->
        IF id \in cluster /\ objs[id].superseded_by = NULL
        THEN [objs[id] EXCEPT !.superseded_by = winner]
        ELSE objs[id]]

_merge_duplicate_cluster(objs, all_facts, cluster) ==
    LET winner == ClusterWinner(objs, all_facts, cluster) IN
    [id \in DOMAIN objs |->
        IF id \in cluster /\ id # winner /\ objs[id].superseded_by = NULL
        THEN [objs[id] EXCEPT !.superseded_by = winner]
        ELSE objs[id]]

RECURSIVE MergeClusters(_, _, _)
MergeClusters(objs, all_facts, clusters) ==
    IF clusters = {} THEN objs
    ELSE LET c == CHOOSE x \in clusters : TRUE
         IN MergeClusters(_merge_duplicate_cluster(objs, all_facts, c), all_facts,
                          clusters \ {c})

\* A promotion loop that assigns the outcome of the test to every fact.
PromoteRefreshed_recomputed(objs, ids) ==
    [id \in DOMAIN objs |->
        IF id \in ids
        THEN [objs[id] EXCEPT !.is_essential =
                 /\ objs[id].last_refreshed_at - objs[id].created_at >= PROMOTE_REFRESH_DAYS
                 /\ objs[id].confidence_score >= PROMOTE_MIN_CONFIDENCE]
        ELSE objs[id]]

PromoteRefreshed(objs, ids) ==
    [id \in DOMAIN objs |->
        IF /\ id \in ids
           /\ ~objs[id].is_essential
           /\ objs[id].last_refreshed_at - objs[id].created_at >= PROMOTE_REFRESH_DAYS
           /\ objs[id].confidence_score >= PROMOTE_MIN_CONFIDENCE
        THEN [objs[id] EXCEPT !.is_essential = TRUE]
        ELSE objs[id]]

\* Steps 1-3 of consolidate_user_memory on the rows loaded (snap): the facts
\* analysed and the objects after merging and promotion.
ConsolidationPlan(snap, user_id) ==
    LET active == ActiveIds(snap, user_id)
        all_facts == SortBy(active, [a, b \in active |-> CreatedDesc(snap, a, b)])
        clusters == _find_semantic_duplicate_clusters(snap, active,
                                                      SEMANTIC_DUPLICATE_THRESHOLD)
        merged == MergeClusters(snap, all_facts, clusters)
    IN [all_facts |-> all_facts, objs |-> PromoteRefreshed(merged, active)]

SummaryCandidates(plan) ==
    LET chosen == SelectSeq(plan.all_facts,
                     LAMBDA id : plan.objs[id].is_essential
                                 \/ plan.objs[id].confidence_score >= SUMMARY_MIN_CONFIDENCE)
    IN SubSeq(chosen, 1, Min({Len(chosen), SUMMARY_MAX_FACTS}))

\* A consolidation that never finds the summary it stored.
ProfileSummaryIds_none(facts, user_id) == {}

ProfileSummaryIds(facts, user_id) ==
    {id \in FactIds(facts) :
        /\ facts[id].user_id = user_id
        /\ facts[id].slot_hint = "profile_summary"
        /\ IsActive(facts[id])}

\* Step 4 and the commit.  profile: the summary text, or NoText when none was
\* generated.  Returns [status, facts].
\* if profile: the upsert of the summary and the commit; found is what the
\* query for the existing summary returned.
SummaryUpsert(db, snap, plan, user_id, profile, found, t) ==
    LET loaded == Range(plan.all_facts)
        flushed == FlushUpdates(db, snap, plan.objs, loaded)
    IN IF profile = NoText THEN [status |-> "success", facts |-> flushed]
       ELSE IF Cardinality(found) > 1 THEN [status |-> "error", facts |-> db]
       ELSE IF found = {} THEN
            [status |-> "success",
             facts |-> Append(flushed,
                 [MemoryFact(user_id, BIOGRAPHICAL, profile, SUMMARY_CONFIDENCE,
                             "profile_summary", CURRENT, NULL, TRUE)
                     EXCEPT !.created_at = t, !.last_refreshed_at = t])]
       ELSE LET id == CHOOSE x \in found : TRUE
                held == IF id \in loaded THEN plan.objs[id] ELSE flushed[id]
                existing_summary == [held EXCEPT !.content = profile,
                                                 !.last_refreshed_at = t,
                                                 !.confidence_score = SUMMARY_CONFIDENCE]
            IN [status |-> "success",
                facts |-> [flushed EXCEPT ![id] =
                              [col \in DOMAIN flushed[id] |->
                                  IF existing_summary[col] # held[col]
                                  THEN existing_summary[col] ELSE flushed[id][col]]]]

\* Steps 4 of a run that nothing interrupts: the query for the existing
\* summary sees the table as the run has flushed it.
ConsolidationCommit(db, snap, plan, user_id, profile, t) ==
    SummaryUpsert(db, snap, plan, user_id, profile,
                  ProfileSummaryIds(FlushUpdates(db, snap, plan.objs, Range(plan.all_facts)),
                                    user_id), t)

\* optimize_user_memory: the facts offered to the LLM.
OptimizeBefore(facts, a, b) ==
    \/ facts[a].confidence_score > facts[b].confidence_score
    \/ /\ facts[a].confidence_score = facts[b].confidence_score
       /\ CreatedDesc(facts, a, b)

OptimizationFacts(facts, user_id) ==
    LET ids == {id \in ActiveIds(facts, user_id) : ~facts[id].is_essential}
        ordered == SortBy(ids, [a, b \in ids |-> OptimizeBefore(facts, a, b)])
    IN SubSeq(ordered, 1, Min({Len(ordered), OPTIMIZATION_MAX_FACTS}))

\* essential_fact_ids: indices (from 0) chosen by the LLM; out of range ones are skipped.
PromoteChosen(objs, facts_list, essential_fact_ids) ==
    [id \in DOMAIN objs |->
        IF \E index \in essential_fact_ids :
              0 <= index /\ index < Len(facts_list) /\ facts_list[index + 1] = id
        THEN [objs[id] EXCEPT !.is_essential = TRUE]
        ELSE objs[id]]

\* decay_stale_facts
\* A decay that selects by age alone.
StaleIds_any(facts, t) ==
    {id \in FactIds(facts) : facts[id].last_refreshed_at < t - DECAY_CUTOFF_DAYS}

StaleIds(facts, t) ==
    {id \in FactIds(facts) :
        /\ IsActive(facts[id])
        /\ facts[id].last_refreshed_at < t - DECAY_CUTOFF_DAYS}

DecayedConfidence(confidence) ==
    Max({DECAY_FLOOR, (confidence * DECAY_FACTOR_TENTHS) \div 10})

DecayStale(facts, t) ==
    [id \in FactIds(facts) |->
        IF id \in StaleIds(facts, t)
        THEN [facts[id] EXCEPT !.confidence_score = DecayedConfidence(@)]
        ELSE facts[id]]

(***************************************************************************)
(* The state after set-up: two users with their keys, one session each,    *)
(* a conversation already ingested, no fact yet.                           *)
(***************************************************************************)
UserIds == {1, 2}
KeyOf(user_id) == IF user_id = 1 THEN "memori_key_1" ELSE "memori_key_2"

\* hash_api_key that gives every key the same hash.
hash_api_key_same(api_key) == <<"sha256", "">>

\* app/security.py: hash_api_key (SHA-256 is taken to be injective)
hash_api_key(api_key) == <<"sha256", api_key>>

NoResult == << >>

\* What the last operation did (history, read by no operation): the user a
\* request names (NULL for a job), the table before it (pre), its inputs and
\* outcome, and the operation before it when that one succeeded (prev).
Call(op, arg, status, cands) ==
    [op |-> op, arg |-> arg, status |-> status, cands |-> cands]

NoCall == Call("none", 0, "", << >>)

Outcome(op, user_id, arg, http, status, pre, cands, existing, result) ==
    [op |-> op, user_id |-> user_id, arg |-> arg, http |-> http, status |-> status, pre |-> pre,
     cands |-> cands, existing |-> existing, result |-> result,
     prev |-> IF last.status = "success"
              THEN Call(last.op, last.arg, last.status, last.cands) ELSE NoCall]

\* Conversations of session 1 (user 1); session 2 (user 2) holds one message.
Conversations ==
    { <<SaysGoogle, SaysAcme>>,
      <<SaysSF, SaysSanFrancisco>>,
      <<SaysDallas, SaysInitech>>,
      <<SaysLikes, SaysSF>> }

InitialLogs(conv) ==
    << ChatLog(1, "user", conv[1], 1), ChatLog(2, "user", SaysSF, 2),
       ChatLog(1, "user", conv[2], 3) >>

Init ==
    /\ users = [u \in UserIds |-> hash_api_key(KeyOf(u))]
    /\ sessions = [s \in {1, 2} |-> s]
    /\ \E conv \in Conversations : chat_logs = InitialLogs(conv)
    /\ memory_facts = << >>
    /\ job_queue = << >>
    /\ rate_limits = << >>
    /\ workers = << >>
    /\ now = 3
    /\ nops = 0
    /\ last = [op |-> "init", user_id |-> NULL, arg |-> 0, http |-> 0, status |-> "", pre |-> << >>,
               cands |-> << >>, existing |-> << >>, result |-> NoResult,
               prev |-> NoCall]

\* The clock counts days.  Every operation reads it a day after the one
\* before, so that successive operations carry strictly increasing times.
Step(t) ==
    /\ nops < MaxOps
    /\ nops' = nops + 1
    /\ t = now + 1
    /\ now' = t

(***************************************************************************)
(* Worker tasks, each run from start to commit with no other job between   *)
(***************************************************************************)
\* The exception classes the first except clause of the tasks names; every
\* other exception falls to "except Exception".
TransientErrors == {"RateLimitError", "APIError", "APIConnectionError", "APITimeoutError"}

\* What a gateway call can do: return, or raise one of these.
CallOutcomes == {"ok", "Exception"} \cup TransientErrors

\* An extraction that treats every exception as fatal.
except_status_error(raised) == "error"

\* except (RateLimitError, APIError, APIConnectionError, APITimeoutError):
\* raise Retry(defer=30); except Exception: return {"status": "error"}.
except_status(raised) == IF raised \in TransientErrors THEN "retry" ELSE "error"

\* The body of extract_facts_task(session_id) run at time t.  chat is the
\* outcome of the chat_structured call and embed that of embed_texts; an
\* exception raised before the commit leaves the transaction uncommitted.
extract_facts_task(session_id, t, chat, embed) ==
    LET window == SessionWindow(chat_logs, session_id)
        user_id == sessions[session_id]
    IN
    \/ /\ Len(window) = 0
       /\ memory_facts' = memory_facts
       /\ last' = Outcome("extract", NULL, session_id, 0, "no_messages", memory_facts,
                          << >>, << >>, NoResult)
    \/ /\ Len(window) > 0
       /\ chat # "ok"
       /\ memory_facts' = memory_facts
       /\ last' = Outcome("extract", NULL, session_id, 0, except_status(chat), memory_facts,
                          << >>, << >>, NoResult)
    \/ /\ Len(window) > 0
       /\ chat = "ok"
       /\ \E extracted_facts \in ExtractionResponses(chat_logs, window) :
          \E existing \in Orderings(ExistingFactIds(memory_facts, user_id)) :
             LET st == StageExtracted(extracted_facts, 1, existing, user_id,
                           window[Len(window)], t,
                           [objs |-> memory_facts, pending |-> << >>,
                            supersede_queue |-> << >>])
             IN /\ Len(memory_facts) + Len(st.pending) <= MaxFacts
                /\ memory_facts' = ExtractionCommit(memory_facts, memory_facts,
                                                    existing, st, embed = "ok", t)
                /\ last' = Outcome("extract", NULL, session_id, 0, "success", memory_facts,
                                   extracted_facts, existing, NoResult)

\* extract_facts_task(session_id) as one step of the worker.
ExtractFacts(session_id) ==
    \E t \in {now + 1} :
    /\ Step(t)
    /\ UNCHANGED <<users, sessions, rate_limits, chat_logs, job_queue, workers>>
    /\ \E chat \in {"ok", "APITimeoutError", "Exception"}, embed \in {"ok", "Exception"} :
          extract_facts_task(session_id, t, chat, embed)

\* Bound on the indices an optimisation response names.
MaxPicks == 1

\* The body of optimize_user_memory(user_id) run at time t.
optimize_user_memory(user_id, t) ==
    LET facts_list == OptimizationFacts(memory_facts, user_id) IN
    \/ /\ Len(facts_list) = 0
       /\ memory_facts' = memory_facts
       /\ last' = Outcome("optimize", NULL, user_id, 0, "no_facts_to_optimize", memory_facts,
                          << >>, << >>, NoResult)
    \/ /\ Len(facts_list) > 0
       /\ \E failure \in {"retry", "error"} :
             /\ memory_facts' = memory_facts
             /\ last' = Outcome("optimize", NULL, user_id, 0, failure, memory_facts,
                                << >>, << >>, NoResult)
    \/ /\ Len(facts_list) > 0
       /\ \E essential_fact_ids \in
              {S \in SUBSET (0..Len(facts_list)) : Cardinality(S) <= MaxPicks} :
             /\ memory_facts' = FlushUpdates(memory_facts, memory_facts,
                     PromoteChosen(memory_facts, facts_list, essential_fact_ids),
                     Range(facts_list))
             /\ last' = Outcome("optimize", NULL, user_id, 0, "success", memory_facts,
                                << >>, facts_list, NoResult)

\* optimize_user_memory(user_id) as one step of the worker.
OptimizeUserMemory(user_id) ==
    \E t \in {now + 1} :
    /\ Step(t)
    /\ UNCHANGED <<users, sessions, rate_limits, chat_logs, job_queue, workers>>
    /\ optimize_user_memory(user_id, t)

\* decay_stale_facts()
DecayStaleFacts ==
    \E t \in {now + 1} :
    /\ Step(t)
    /\ UNCHANGED <<users, sessions, rate_limits, chat_logs, job_queue, workers>>
    /\ memory_facts' = DecayStale(memory_facts, t)
    /\ last' = Outcome("decay", NULL, 0, 0, "done", memory_facts, << >>, << >>, NoResult)

\* _generate_profile_summary(facts, llm_provider): None without facts, and
\* None when the chat call raises anything (except Exception: return None).
_generate_profile_summary(candidates, chat) ==
    IF Len(candidates) = 0 \/ chat # "ok" THEN NoText ELSE ProfileText

\* The body of consolidate_user_memory(user_id) run at time t; chat is the
\* outcome of the chat_structured call of the profile summary.
consolidate_user_memory(user_id, t, chat) ==
    LET plan == ConsolidationPlan(memory_facts, user_id) IN
    \/ /\ Len(plan.all_facts) = 0
       /\ memory_facts' = memory_facts
       /\ last' = Outcome("consolidate", NULL, user_id, 0, "no_facts", memory_facts,
                          << >>, << >>, NoResult)
    \/ /\ Len(plan.all_facts) > 0
       /\ LET profile == _generate_profile_summary(SummaryCandidates(plan), chat)
              done == ConsolidationCommit(memory_facts, memory_facts, plan,
                                          user_id, profile, t)
          IN /\ Len(done.facts) <= MaxFacts
             /\ memory_facts' = done.facts
             /\ last' = Outcome("consolidate", NULL, user_id, 0, done.status,
                                memory_facts, << >>, plan.all_facts, NoResult)

\* consolidate_user_memory(user_id) as one step of the worker.
ConsolidateUserMemory(user_id) ==
    \E t \in {now + 1} :
    /\ Step(t)
    /\ UNCHANGED <<users, sessions, rate_limits, chat_logs, job_queue, workers>>
    /\ \E chat \in {"ok", "APITimeoutError"} : consolidate_user_memory(user_id, t, chat)

\* Time passes with no operation.
PassTime ==
    \E days \in {PROMOTE_REFRESH_DAYS, DECAY_CUTOFF_DAYS} :
    /\ nops < MaxOps
    /\ nops' = nops + 1
    /\ now' = now + days
    /\ last' = Outcome("wait", NULL, days, 0, "", memory_facts, << >>, << >>, NoResult)
    /\ UNCHANGED <<users, sessions, rate_limits, chat_logs, memory_facts, job_queue, workers>>

(***************************************************************************)
(* app/security.py and app/api/facts.py                                    *)
(***************************************************************************)
NoKey == ""

\* ensure_user_authorized: the status it raises, or 0 when it returns the user.
\* The requests of the specifications whose clock counts days are each alone
\* in their one-minute window, and the counter of the window before has
\* expired: _enforce_rate_limit counts 1 and raises nothing.  The counters
\* themselves are the subject of SpecRate.
ensure_user_authorized(user_id, api_key) ==
    IF api_key = NoKey THEN 401
    ELSE IF ~(user_id \in DOMAIN users /\ users[user_id] = hash_api_key(api_key)) THEN 403
    ELSE 0

\* DELETE /v1/facts/{fact_id}
DeleteFact(fact_id, api_key) ==
    \E t \in {now + 1} :
    LET denied == ensure_user_authorized(memory_facts[fact_id].user_id, api_key) IN
    /\ Step(t)
    /\ UNCHANGED <<users, sessions, rate_limits, chat_logs, job_queue, workers>>
    /\ IF fact_id \notin FactIds(memory_facts)
       THEN /\ memory_facts' = memory_facts
            /\ last' = Outcome("delete_fact", NULL, fact_id, 404, "", memory_facts,
                               << >>, << >>, NoResult)
       ELSE IF denied # 0
       THEN /\ memory_facts' = memory_facts
            /\ last' = Outcome("delete_fact", NULL, fact_id, denied, "", memory_facts,
                               << >>, << >>, NoResult)
       ELSE /\ memory_facts' = [memory_facts EXCEPT ![fact_id].expires_at = t]
            /\ last' = Outcome("delete_fact", NULL, fact_id, 204, "", memory_facts,
                               << >>, << >>, NoResult)

(***************************************************************************)
(* app/api/facts.py, app/api/conscious.py, app/api/recall.py: the rows the *)
(* read endpoints answer with (ids, in the order of the response).         *)
(***************************************************************************)
Take(seq, n) == SubSeq(seq, 1, Min({Len(seq), n}))

\* GET /v1/facts/{user_id}
list_facts(facts, user_id, limit) ==
    LET ids == ActiveIds(facts, user_id)
    IN Take(SortBy(ids, [a, b \in ids |-> CreatedDesc(facts, a, b)]), limit)

\* GET /v1/conscious/{user_id} (rows of equal confidence: in row order)
get_conscious_memory(facts, user_id) ==
    LET ids == {id \in FactIds(facts) :
                    facts[id].user_id = user_id /\ facts[id].is_essential}
    IN SortBy(ids, [a, b \in ids |->
                        \/ facts[a].confidence_score > facts[b].confidence_score
                        \/ /\ facts[a].confidence_score = facts[b].confidence_score
                           /\ a < b])

MIN_FUZZY_SIMILARITY == 30
MIN_VECTOR_DISTANCE == 75
HIGH_CONFIDENCE_FALLBACK == 70

IntentHints(token) ==
    IF token \in {"where", "live", "lives", "living", "location", "city", "move", "moved"}
        THEN {BIOGRAPHICAL}
    ELSE IF token \in {"job", "jobs", "profession", "work", "working", "role", "employer",
                       "company", "companies"}
        THEN {WORK_CONTEXT}
    ELSE IF token \in {"like", "likes", "love", "loves", "enjoy", "enjoys", "hobby",
                       "hobbies", "prefer", "prefers", "preference", "preferences",
                       "favorite", "favourites"}
        THEN {USER_PREFERENCE}
    ELSE IF token \in {"learning", "studying", "study"} THEN {LEARNING, USER_PREFERENCE}
    ELSE IF token \in {"course", "courses", "class"} THEN {LEARNING}
    ELSE IF token \in {"girlfriend", "boyfriend", "spouse", "partner", "wife", "husband",
                       "friend", "friends"}
        THEN {RELATIONSHIP}
    ELSE {}

_hint_categories(query) ==
    UNION {IntentHints(query.words[i]) : i \in 1..Len(query.words)}

_allow_category(hinted, category) ==
    IF hinted # {} THEN category \in hinted ELSE TRUE

HasPhraseAt(words, phrase, i) ==
    /\ i + Len(phrase) - 1 <= Len(words)
    /\ SubSeq(words, i, i + Len(phrase) - 1) = phrase

HasPhrase(words, phrase) == \E i \in 1..Len(words) : HasPhraseAt(words, phrase, i)

\* first .* phrase: a word, at least one word, then the phrase
HasPhraseAfter(words, first, phrase) ==
    \E i, j \in 1..Len(words) :
        words[i] = first /\ j >= i + 2 /\ HasPhraseAt(words, phrase, j)

\* GENERIC_QUERY_PATTERNS, matched on whole words
_is_generic_query(query) ==
    LET w == query.words IN
    \/ \E x \in {"myself", "me"} : HasPhrase(w, <<"tell", "me", "about", x>>)
    \/ HasPhraseAfter(w, "what", <<"know", "about", "me">>)
    \/ HasPhrase(w, <<"who", "am", "i">>)
    \/ \E x \in {<<"me">>, <<"myself">>, <<"my", "profile">>, <<"my", "information">>} :
          HasPhrase(w, <<"summarize">> \o x)
    \/ HasPhraseAfter(w, "what", <<"remember", "about", "me">>)
    \/ HasPhraseAfter(w, "everything", <<"about", "me">>)
    \/ \E x \in {"profile", "information", "details", "summary"} : HasPhrase(w, <<"my", x>>)
    \/ HasPhrase(w, <<"describe", "me">>)

\* rapidfuzz's fuzz.token_set_ratio of a query and a content (0..100, rounded)
token_set_ratio(query, content) ==
    LET contents == << WorksAtGoogle, WorksAtAcmeCorp, IsASeniorEngineer, EmployedByInitech,
                       LivesInSF, ResidesInSanFrancisco, PreviouslyLivedInDallas,
                       PrefersDarkMode, LearningRustBasics, ProfileText >>
        scores == CASE query = WhereDoILive -> <<26, 29, 33, 29, 30, 30, 43, 36, 28, 38>>
                    [] query = WhoAmIAndWhereDoIWork -> <<33, 36, 43, 22, 16, 27, 23, 23, 17, 28>>
                    [] query = Rust -> <<21, 18, 8, 9, 13, 14, 13, 10, 100, 5>>
                    [] query = WhoAmIAndWhatDoILike -> <<34, 36, 35, 27, 16, 32, 31, 23, 22, 38>>
                    [] OTHER -> <<0, 0, 0, 0, 0, 0, 0, 0, 0, 0>>
    IN IF \E i \in 1..Len(contents) : contents[i] = content
       THEN scores[CHOOSE i \in 1..Len(contents) : contents[i] = content]
       ELSE 0

\* _fuzzy_score: the composite score, times 100
_fuzzy_score(query, content, confidence) ==
    token_set_ratio(query, content) * 70 + confidence * 30

\* The body of POST /v1/recall.  max_age_days: NoAge when the request has none;
\* categories: the empty set when the request has none.
NoAge == 0 - 1

RecallRequest(user_id, query, limit, categories, include_historical, current_view_only, max_age_days) ==
    [user_id |-> user_id, query |-> query, limit |-> limit, categories |-> categories,
     include_historical |-> include_historical, current_view_only |-> current_view_only,
     max_age_days |-> max_age_days]

\* Filters that keep to the user and let every row of the user through.
RecallFilters_user_only(facts, id, request) ==
    facts[id].user_id = request.user_id

\* The filters every stage applies.
RecallFilters(facts, id, request) ==
    /\ facts[id].user_id = request.user_id
    /\ facts[id].expires_at = NULL
    /\ request.current_view_only => facts[id].superseded_by = NULL
    /\ ~request.include_historical => facts[id].temporal_state # PAST

\* category_filter (the empty set: None)
CategoryFilter(request) ==
    IF request.categories # {} THEN request.categories
    ELSE IF _hint_categories(request.query) # {} /\ ~_is_generic_query(request.query)
         THEN _hint_categories(request.query)
    ELSE {}

\* embedding.cosine_distance(q) < MIN_VECTOR_DISTANCE / 100
WithinDistance(a, q) ==
    LET dot == DotFrom(a, q, 1)
        limit == 100 - MIN_VECTOR_DISTANCE
    IN /\ dot > 0
       /\ 10000 * dot * dot > limit * limit * DotFrom(a, a, 1) * DotFrom(q, q, 1)

\* cosine_distance(a, q) < cosine_distance(b, q)
Nearer(a, b, q) ==
    LET da == DotFrom(a, q, 1)
        db == DotFrom(b, q, 1)
        na == DotFrom(a, a, 1)
        nb == DotFrom(b, b, 1)
    IN IF da >= 0 /\ db >= 0 THEN da * da * nb > db * db * na
       ELSE IF da < 0 /\ db < 0 THEN da * da * nb < db * db * na
       ELSE da >= 0

\* The vector stage (rows at equal distance: in row order).
VectorResults(facts, request, query_embedding) ==
    LET hits == {id \in FactIds(facts) :
                    /\ RecallFilters(facts, id, request)
                    /\ facts[id].embedding # << >>
                    /\ WithinDistance(facts[id].embedding, query_embedding)
                    /\ CategoryFilter(request) # {} =>
                           facts[id].category \in CategoryFilter(request)}
    IN IF query_embedding = << >> THEN << >>
       ELSE Take(SortBy(hits, [a, b \in hits |->
                    \/ Nearer(facts[a].embedding, facts[b].embedding, query_embedding)
                    \/ /\ ~Nearer(facts[b].embedding, facts[a].embedding, query_embedding)
                       /\ a < b]),
                 request.limit)

\* The lexical fill: the rows added to vector_results.
LexicalFill(facts, request, vector_results, t) ==
    LET candidate_pool == Min({Max({request.limit * 10, 50}), 500})
        hits == {id \in FactIds(facts) :
                    /\ RecallFilters(facts, id, request)
                    /\ request.max_age_days # NoAge =>
                           facts[id].created_at >= t - request.max_age_days
                    /\ CategoryFilter(request) # {} =>
                           facts[id].category \in CategoryFilter(request)}
        pool == Take(SortBy(hits, [a, b \in hits |-> CreatedDesc(facts, a, b)]), candidate_pool)
        ranked == {id \in Range(pool) :
                    /\ id \notin Range(vector_results)
                    /\ _allow_category(_hint_categories(request.query), facts[id].category)
                    /\ token_set_ratio(request.query, facts[id].content) >= MIN_FUZZY_SIMILARITY}
        score(id) == _fuzzy_score(request.query, facts[id].content, facts[id].confidence_score)
    IN Take(SortBy(ranked, [a, b \in ranked |->
                \/ score(a) > score(b)
                \/ (score(a) = score(b) /\ CreatedDesc(facts, a, b))]),
            request.limit - Len(vector_results))

\* ORDER BY is_essential DESC, confidence_score DESC, created_at DESC
ProfileOrder(facts, a, b) ==
    \/ (facts[a].is_essential /\ ~facts[b].is_essential)
    \/ /\ facts[a].is_essential = facts[b].is_essential
       /\ \/ facts[a].confidence_score > facts[b].confidence_score
          \/ /\ facts[a].confidence_score = facts[b].confidence_score
             /\ CreatedDesc(facts, a, b)

RECURSIVE BalancedFrom(_, _, _)
BalancedFrom(facts, request, k) ==
    IF k > Len(FactCategory) THEN << >>
    ELSE LET per_category == Max({1, request.limit \div Len(FactCategory)})
             hits == {id \in FactIds(facts) :
                         /\ RecallFilters(facts, id, request)
                         /\ facts[id].category = FactCategory[k]}
         IN Take(SortBy(hits, [a, b \in hits |-> ProfileOrder(facts, a, b)]), per_category)
            \o BalancedFrom(facts, request, k + 1)

_get_balanced_profile_facts(facts, request) ==
    Take(BalancedFrom(facts, request, 1), request.limit)

_get_high_confidence_facts(facts, request, limit) ==
    LET hits == {id \in FactIds(facts) :
                    /\ RecallFilters(facts, id, request)
                    /\ facts[id].confidence_score >= HIGH_CONFIDENCE_FALLBACK}
    IN Take(SortBy(hits, [a, b \in hits |-> ProfileOrder(facts, a, b)]), limit)

\* A loop that appends every fact of more.
ExtendUnseen_all(results, more, k, limit) == results \o SubSeq(more, k, Len(more))

\* for fact in more: append it when it is not there yet and there is room
RECURSIVE ExtendUnseen(_, _, _, _)
ExtendUnseen(results, more, k, limit) ==
    IF k > Len(more) THEN results
    ELSE IF more[k] \notin Range(results) /\ Len(results) < limit
         THEN ExtendUnseen(Append(results, more[k]), more, k + 1, limit)
    ELSE ExtendUnseen(results, more, k + 1, limit)

\* recall_facts, for an authorized caller.  query_embedding: << >> when the
\* embedding call failed.
recall_facts(facts, request, query_embedding, t) ==
    LET vector_results == VectorResults(facts, request, query_embedding)
        filled == IF Len(vector_results) < request.limit
                  THEN vector_results \o LexicalFill(facts, request, vector_results, t)
                  ELSE vector_results
        balanced == IF _is_generic_query(request.query) /\ Len(filled) < request.limit
                    THEN ExtendUnseen(filled, _get_balanced_profile_facts(facts, request),
                                      1, request.limit)
                    ELSE filled
    IN IF _is_generic_query(request.query) /\ Len(filled) < request.limit
          /\ Len(balanced) < request.limit
       THEN ExtendUnseen(balanced,
                _get_high_confidence_facts(facts, request, request.limit - Len(balanced)),
                1, request.limit)
       ELSE balanced

(***************************************************************************)
(* app/api/ingest.py, app/services/ingestion.py, app/worker/queue.py       *)
(***************************************************************************)
\* enqueue_memory_extraction: the job it places on the queue.
ExtractionJob(session_id) ==
    [function |-> "extract_memory_facts", args |-> session_id]

\* _validate_session that finds no session at all.
_validate_session_none(session_id) == "ValueError"

\* IngestionService._validate_session: the exception it raises ("" for none).
_validate_session(session_id) ==
    IF session_id \in DOMAIN sessions THEN "" ELSE "ValueError"

\* POST /v1/ingest.  result: the sizes of chat_logs and of the queue before.
\* A ValueError has no handler in app/main.py: the response is a 500.
ingest_message(user_id, api_key, session_id, role, content) ==
    \E t \in {now + 1} :
    LET denied == ensure_user_authorized(user_id, api_key)
        before == <<Len(chat_logs), Len(job_queue)>>
    IN
    /\ Step(t)
    /\ Len(chat_logs) < MaxMsgs
    /\ UNCHANGED <<users, sessions, rate_limits, memory_facts, workers>>
    /\ IF denied # 0
       THEN /\ UNCHANGED <<chat_logs, job_queue>>
            /\ last' = Outcome("ingest", user_id, session_id, denied, "", memory_facts,
                               << >>, << >>, before)
       ELSE IF _validate_session(session_id) # ""
       THEN /\ UNCHANGED <<chat_logs, job_queue>>
            /\ last' = Outcome("ingest", user_id, session_id, 500,
                               _validate_session(session_id), memory_facts,
                               << >>, << >>, before)
       ELSE /\ chat_logs' = Append(chat_logs, ChatLog(session_id, role, content, t))
            /\ job_queue' = Append(job_queue, ExtractionJob(session_id))
            /\ last' = Outcome("ingest", user_id, session_id, 201, "queued", memory_facts,
                               << >>, << >>, before)

\* The requests of the model: each user, with no key, the own key or the
\* other user's key, naming either session or a session that does not exist.
NoSession == Cardinality(DOMAIN sessions) + 1
ApiKeys == {NoKey} \cup {KeyOf(u) : u \in UserIds}

NextApi ==
    \/ \E user_id \in UserIds, api_key \in ApiKeys,
          session_id \in DOMAIN sessions \cup {NoSession},
          content \in {SaysAcme, SaysDallas} :
           ingest_message(user_id, api_key, session_id, "user", content)
    \/ \E session_id \in DOMAIN sessions : ExtractFacts(session_id)

SpecApi == Init /\ [][NextApi]_vars

Next ==
    \/ \E session_id \in DOMAIN sessions : ExtractFacts(session_id)
    \/ \E user_id \in UserIds : OptimizeUserMemory(user_id)
    \/ DecayStaleFacts
    \/ \E user_id \in UserIds : ConsolidateUserMemory(user_id)
    \/ \E fact_id \in FactIds(memory_facts) :
           DeleteFact(fact_id, KeyOf(memory_facts[fact_id].user_id))
    \/ PassTime

Spec == Init /\ [][Next]_vars

(***************************************************************************)
(* Overlapping worker jobs (WorkerSettings.max_jobs = 10, several worker   *)
(* processes): a job loads rows in its own database session, awaits the    *)
(* LLM gateway, and flushes and commits later; other jobs commit between.  *)
(* workers[w] holds what job w has in memory between its two steps.        *)
(***************************************************************************)
Workers == {1, 2}

MaxRaceOps == 1    \* whole operations committing beside the two jobs

IdleWorker ==
    [pc |-> "idle", arg |-> 0, snap |-> << >>, cands |-> << >>, existing |-> << >>,
     loaded_at |-> 0, committed_at |-> 0]

\* The store after extract_facts_task has run once on the conversation
\* "I live in SF" / "I reside in San Francisco" and saved both facts.
StoreAfterExtraction ==
    LET response == StatedFacts(SaysSF) \o StatedFacts(SaysSanFrancisco)
        st == StageExtracted(response, 1, << >>, 1, 3, 4,
                  [objs |-> << >>, pending |-> << >>, supersede_queue |-> << >>])
    IN ExtractionCommit(<< >>, << >>, << >>, st, TRUE, 4)

InitRace ==
    /\ users = [u \in UserIds |-> hash_api_key(KeyOf(u))]
    /\ sessions = [s \in {1, 2} |-> s]
    /\ chat_logs = InitialLogs(<<SaysSF, SaysSanFrancisco>>)
    /\ \/ memory_facts = << >> /\ now = 3
       \/ memory_facts = StoreAfterExtraction /\ now = 4
    /\ job_queue = << >>
    /\ rate_limits = << >>
    /\ workers = [w \in Workers |-> IdleWorker]
    /\ nops = 0
    /\ last = [op |-> "init", user_id |-> NULL, arg |-> 0, http |-> 0, status |-> "",
               pre |-> << >>, cands |-> << >>, existing |-> << >>, result |-> NoResult,
               prev |-> NoCall]

\* extract_facts_task up to the query for the existing facts (tasks.py:280-285).
ExtractLoad(w, session_id) ==
    \E t \in {now + 1} :
    LET window == SessionWindow(chat_logs, session_id) IN
    /\ workers[w].pc = "idle"
    /\ Len(window) > 0
    /\ now' = t
    /\ \E extracted_facts \in ExtractionResponses(chat_logs, window) :
       \E existing \in Orderings(ExistingFactIds(memory_facts, sessions[session_id])) :
          workers' = [workers EXCEPT ![w] =
                         [pc |-> "extract", arg |-> session_id, snap |-> memory_facts,
                          cands |-> extracted_facts, existing |-> existing,
                          loaded_at |-> t, committed_at |-> 0]]
    /\ last' = Outcome("extract_load", NULL, session_id, 0, "", memory_facts,
                       << >>, << >>, NoResult)
    /\ UNCHANGED <<users, sessions, rate_limits, chat_logs, memory_facts, job_queue, nops>>

\* extract_facts_task from the loop over the candidates to the commit.
ExtractCommit(w) ==
    \E t \in {now + 1} :
    LET job == workers[w]
        window == SessionWindow(chat_logs, job.arg)
        st == StageExtracted(job.cands, 1, job.existing, sessions[job.arg],
                  window[Len(window)], job.loaded_at,
                  [objs |-> job.snap, pending |-> << >>, supersede_queue |-> << >>])
    IN
    /\ job.pc = "extract"
    /\ now' = t
    /\ Len(memory_facts) + Len(st.pending) <= MaxFacts
    /\ \E embedded \in (IF Len(st.pending) = 0 THEN {TRUE} ELSE BOOLEAN) :
          memory_facts' = ExtractionCommit(memory_facts, job.snap, job.existing, st,
                                           embedded, t)
    /\ workers' = [workers EXCEPT ![w].pc = "extracted", ![w].committed_at = t]
    /\ last' = Outcome("extract", NULL, job.arg, 0, "success", memory_facts,
                       job.cands, job.existing, NoResult)
    /\ UNCHANGED <<users, sessions, rate_limits, chat_logs, job_queue, nops>>

\* consolidate_user_memory up to the profile summary call: the active facts
\* are loaded; merging and promotion change the objects in memory only.
ConsolidateLoad(w, user_id) ==
    \E t \in {now + 1} :
    /\ workers[w].pc = "idle"
    /\ ActiveIds(memory_facts, user_id) # {}
    /\ now' = t
    /\ workers' = [workers EXCEPT ![w] =
                      [pc |-> "consolidate", arg |-> user_id, snap |-> memory_facts,
                       cands |-> << >>, existing |-> << >>,
                       loaded_at |-> t, committed_at |-> 0]]
    /\ last' = Outcome("consolidate_load", NULL, user_id, 0, "", memory_facts,
                       << >>, << >>, NoResult)
    /\ UNCHANGED <<users, sessions, rate_limits, chat_logs, memory_facts, job_queue, nops>>

\* consolidate_user_memory from the profile summary to the commit.
ConsolidateCommit(w) ==
    \E t \in {now + 1} :
    LET job == workers[w]
        plan == ConsolidationPlan(job.snap, job.arg)
    IN
    /\ job.pc = "consolidate"
    /\ now' = t
    /\ \E profile \in (IF Len(SummaryCandidates(plan)) = 0 THEN {NoText}
                       ELSE {NoText, ProfileText}) :
          LET done == ConsolidationCommit(memory_facts, job.snap, plan, job.arg,
                                          profile, t)
          IN /\ Len(done.facts) <= MaxFacts
             /\ memory_facts' = done.facts
             /\ last' = Outcome("consolidate", NULL, job.arg, 0, done.status,
                                memory_facts, << >>, plan.all_facts, NoResult)
    /\ workers' = [workers EXCEPT ![w].pc = "consolidated", ![w].committed_at = t]
    /\ UNCHANGED <<users, sessions, rate_limits, chat_logs, job_queue, nops>>

NextRace ==
    \/ \E w \in Workers : ExtractLoad(w, 1)
    \/ \E w \in Workers : ExtractCommit(w)
    \/ \E w \in Workers : ConsolidateLoad(w, 1)
    \/ \E w \in Workers : ConsolidateCommit(w)
    \/ nops < MaxRaceOps /\ OptimizeUserMemory(1)

SpecRace == InitRace /\ [][NextRace]_vars

(***************************************************************************)
(* Overlapping requests to POST /v1/ingest.  A handler awaits the database *)
(* in ensure_user_authorized, in _validate_session and in the commit, and  *)
(* the queue in the enqueue; another handler runs between.  workers[h]     *)
(* holds the request handler h serves: received is the rank of the request *)
(* among the requests received, chat_log_id the row the handler inserted.  *)
(* The clock is read at the flush of the row (the column default of        *)
(* ChatLog.timestamp) and two reads never return the same value.           *)
(***************************************************************************)
Handlers == {1, 2}

IdleHandler ==
    [pc |-> "idle", user_id |-> 0, session_id |-> 0, content |-> "",
     received |-> 0, chat_log_id |-> 0]

HISTORY_LIMIT == 50

\* GET /v1/history/{session_id}: the rows of the response, oldest first.
get_history(logs, session_id, limit) ==
    LET ids == {m \in 1..Len(logs) : logs[m].session_id = session_id}
        desc == SortBy(ids, [a, b \in ids |->
                    \/ logs[a].timestamp > logs[b].timestamp
                    \/ (logs[a].timestamp = logs[b].timestamp /\ a > b)])
        kept == Take(desc, limit)
    IN [i \in 1..Len(kept) |-> kept[Len(kept) + 1 - i]]

InitIngestRace ==
    /\ users = [u \in UserIds |-> hash_api_key(KeyOf(u))]
    /\ sessions = [s \in {1, 2} |-> s]
    /\ chat_logs = << >>
    /\ memory_facts = << >>
    /\ job_queue = << >>
    /\ rate_limits = << >>
    /\ workers = [h \in Handlers |-> IdleHandler]
    /\ now = 0
    /\ nops = 0
    /\ last = [op |-> "init", user_id |-> NULL, arg |-> 0, http |-> 0, status |-> "",
               pre |-> << >>, cands |-> << >>, existing |-> << >>, result |-> NoResult,
               prev |-> NoCall]

\* The handler is called with a request (app/api/ingest.py:19).
IngestReceive(h, user_id, session_id, content) ==
    /\ workers[h].pc = "idle"
    /\ nops' = nops + 1
    /\ workers' = [workers EXCEPT ![h] =
                      [pc |-> "received", user_id |-> user_id, session_id |-> session_id,
                       content |-> content, received |-> nops + 1, chat_log_id |-> 0]]
    /\ UNCHANGED <<users, sessions, rate_limits, chat_logs, memory_facts, job_queue,
                   now, last>>

\* await ensure_user_authorized(request.user_id, api_key, db), with the user's key
IngestAuthorize(h) ==
    /\ workers[h].pc = "received"
    /\ ensure_user_authorized(workers[h].user_id, KeyOf(workers[h].user_id)) = 0
    /\ workers' = [workers EXCEPT ![h].pc = "authorized"]
    /\ UNCHANGED <<users, sessions, rate_limits, chat_logs, memory_facts, job_queue,
                   now, nops, last>>

\* await self._validate_session(request.session_id)
IngestValidate(h) ==
    /\ workers[h].pc = "authorized"
    /\ _validate_session(workers[h].session_id) = ""
    /\ workers' = [workers EXCEPT ![h].pc = "validated"]
    /\ UNCHANGED <<users, sessions, rate_limits, chat_logs, memory_facts, job_queue,
                   now, nops, last>>

\* self.db.add(chat_log); await self.db.commit()
IngestCommit(h) ==
    \E t \in {now + 1} :
    /\ workers[h].pc = "validated"
    /\ now' = t
    /\ chat_logs' = Append(chat_logs,
                        ChatLog(workers[h].session_id, "user", workers[h].content, t))
    /\ workers' = [workers EXCEPT ![h].pc = "committed",
                                  ![h].chat_log_id = Len(chat_logs) + 1]
    /\ UNCHANGED <<users, sessions, rate_limits, memory_facts, job_queue, nops, last>>

\* await enqueue_memory_extraction(str(request.session_id)) and the response
IngestEnqueue(h) ==
    /\ workers[h].pc = "committed"
    /\ job_queue' = Append(job_queue, ExtractionJob(workers[h].session_id))
    /\ workers' = [workers EXCEPT ![h].pc = "done"]
    /\ last' = Outcome("ingest", workers[h].user_id, workers[h].session_id, 201, "queued",
                       memory_facts, << >>, << >>, <<Len(chat_logs) - 1, Len(job_queue)>>)
    /\ UNCHANGED <<users, sessions, rate_limits, chat_logs, memory_facts, now, nops>>

NextIngestRace ==
    \/ \E h \in Handlers, user_id \in UserIds, content \in {SaysAcme, SaysDallas} :
           IngestReceive(h, user_id, user_id, content)
    \/ \E h \in Handlers : IngestAuthorize(h)
    \/ \E h \in Handlers : IngestValidate(h)
    \/ \E h \in Handlers : IngestCommit(h)
    \/ \E h \in Handlers : IngestEnqueue(h)

SpecIngestRace == InitIngestRace /\ [][NextIngestRace]_vars

(***************************************************************************)
(* app/api/auth.py, app/api/users.py: the key lifecycle, and requests that *)
(* carry any key to the endpoints that change state.                       *)
(***************************************************************************)
\* User.api_key_hash after a revoke (None)
NoHash == << >>

\* generate_api_key: secrets.token_urlsafe(32) returns a key that was never
\* issued before; GeneratedKeys[n] is the key the n-th operation generates.
GeneratedKeys ==
    << "memori_key_3", "memori_key_4", "memori_key_5", "memori_key_6", "memori_key_7" >>

generate_api_key == GeneratedKeys[nops + 1]

\* POST /v1/users/{user_id}/api-key/rotate.  arg: the key presented;
\* result: the key returned.
rotate_api_key(user_id, api_key) ==
    \E t \in {now + 1} :
    LET denied == ensure_user_authorized(user_id, api_key) IN
    /\ Step(t)
    /\ nops < Len(GeneratedKeys)
    /\ UNCHANGED <<sessions, rate_limits, chat_logs, memory_facts, job_queue, workers>>
    /\ IF denied # 0
       THEN /\ users' = users
            /\ last' = Outcome("rotate", user_id, api_key, denied, "", memory_facts,
                               << >>, << >>, NoResult)
       ELSE /\ users' = [users EXCEPT ![user_id] = hash_api_key(generate_api_key)]
            /\ last' = Outcome("rotate", user_id, api_key, 200, "", memory_facts,
                               << >>, << >>, <<generate_api_key>>)

\* DELETE /v1/users/{user_id}/api-key
revoke_api_key(user_id, api_key) ==
    \E t \in {now + 1} :
    LET denied == ensure_user_authorized(user_id, api_key) IN
    /\ Step(t)
    /\ UNCHANGED <<sessions, rate_limits, chat_logs, memory_facts, job_queue, workers>>
    /\ IF denied # 0
       THEN /\ users' = users
            /\ last' = Outcome("revoke", user_id, api_key, denied, "", memory_facts,
                               << >>, << >>, NoResult)
       ELSE /\ users' = [users EXCEPT ![user_id] = NoHash]
            /\ last' = Outcome("revoke", user_id, api_key, 204, "", memory_facts,
                               << >>, << >>, NoResult)

\* POST /v1/users/{user_id}/consolidate
trigger_consolidation(user_id, api_key) ==
    \E t \in {now + 1} :
    LET denied == ensure_user_authorized(user_id, api_key) IN
    /\ Step(t)
    /\ UNCHANGED <<users, sessions, rate_limits, chat_logs, memory_facts, workers>>
    /\ IF denied # 0
       THEN /\ job_queue' = job_queue
            /\ last' = Outcome("trigger_consolidation", user_id, api_key, denied, "",
                               memory_facts, << >>, << >>, NoResult)
       ELSE /\ job_queue' = Append(job_queue, [function |-> "consolidate_user_memory",
                                               args |-> user_id])
            /\ last' = Outcome("trigger_consolidation", user_id, api_key, 200, "queued",
                               memory_facts, << >>, << >>, NoResult)

\* GET /v1/conscious/{user_id} as a request.  The handler declares no
\* X-API-Key header and does not call ensure_user_authorized: whatever key
\* the request carries, the answer is 200 with the user's essential facts.
conscious_request(user_id, api_key) ==
    [http |-> 200, relevant_facts |-> get_conscious_memory(memory_facts, user_id)]

\* The keys a request may carry: none, a key issued at sign-up, or a key
\* generated by an operation so far.
KeysSoFar ==
    ApiKeys \cup {GeneratedKeys[n] : n \in 1..Min({nops, Len(GeneratedKeys)})}

InitAuth ==
    /\ users = [u \in UserIds |-> hash_api_key(KeyOf(u))]
    /\ sessions = [s \in {1, 2} |-> s]
    /\ chat_logs = InitialLogs(<<SaysSF, SaysSanFrancisco>>)
    /\ memory_facts = StoreAfterExtraction
    /\ job_queue = << >>
    /\ rate_limits = << >>
    /\ workers = << >>
    /\ now = 4
    /\ nops = 0
    /\ last = [op |-> "init", user_id |-> NULL, arg |-> 0, http |-> 0, status |-> "",
               pre |-> << >>, cands |-> << >>, existing |-> << >>, result |-> NoResult,
               prev |-> NoCall]

NextAuth ==
    \/ \E user_id \in UserIds, api_key \in KeysSoFar,
          session_id \in DOMAIN sessions \cup {NoSession} :
           ingest_message(user_id, api_key, session_id, "user", SaysAcme)
    \/ \E fact_id \in 1..(Len(memory_facts) + 1), api_key \in KeysSoFar :
           DeleteFact(fact_id, api_key)
    \/ \E user_id \in UserIds, api_key \in KeysSoFar : rotate_api_key(user_id, api_key)
    \/ \E user_id \in UserIds, api_key \in KeysSoFar : revoke_api_key(user_id, api_key)
    \/ \E user_id \in UserIds, api_key \in KeysSoFar :
           trigger_consolidation(user_id, api_key)

SpecAuth == InitAuth /\ [][NextAuth]_vars

(***************************************************************************)
(* app/security.py: _enforce_rate_limit, called by ensure_user_authorized  *)
(* once the key has matched.  Here the clock counts seconds.  A request    *)
(* reads the clock, then awaits INCR on the key of its window and, when it *)
(* was the first to count, EXPIRE; Redis runs each command atomically and  *)
(* other requests run between the awaits.  workers[r] holds request r.     *)
(***************************************************************************)
Requests == {1, 2, 3}

\* settings.RATE_LIMIT_REQUESTS_PER_MIN (default 60), set low enough for the
\* requests of the model to exceed it.
RATE_LIMIT_REQUESTS_PER_MIN == 2

WINDOW_SECONDS == 60
RATE_LIMIT_TTL == 90

\* Seconds by which the clock advances in one step, and its last value.
ClockStep == 30
MaxRateClock == 150

NoTTL == 0 - 1

IdleRequest ==
    [pc |-> "idle", api_key_hash |-> NoHash, epoch_minute |-> 0, read_at |-> 0,
     current |-> 0, http |-> 0]

\* key = f"rl:{api_key_hash}:{epoch_minute}"
RateKey(request) == <<request.api_key_hash, request.epoch_minute>>

\* A key Redis still holds: set, and not past its expiry.
LiveKey(key) ==
    /\ key \in DOMAIN rate_limits
    /\ (rate_limits[key].expires_at = NoTTL \/ now < rate_limits[key].expires_at)

InitRate ==
    /\ users = [u \in UserIds |-> hash_api_key(KeyOf(u))]
    /\ sessions = [s \in {1, 2} |-> s]
    /\ chat_logs = << >>
    /\ memory_facts = << >>
    /\ job_queue = << >>
    /\ rate_limits = << >>
    /\ workers = [r \in Requests |-> IdleRequest]
    /\ now \in {0, ClockStep}
    /\ nops = 0
    /\ last = [op |-> "init", user_id |-> NULL, arg |-> 0, http |-> 0, status |-> "",
               pre |-> << >>, cands |-> << >>, existing |-> << >>, result |-> NoResult,
               prev |-> NoCall]

\* limit > 0; epoch_minute = int(time.time() // 60); key = ...
RateLimitEnter(r, user_id) ==
    /\ workers[r].pc = "idle"
    /\ ensure_user_authorized(user_id, KeyOf(user_id)) = 0
    /\ RATE_LIMIT_REQUESTS_PER_MIN > 0
    /\ workers' = [workers EXCEPT ![r] =
                      [pc |-> "timed", api_key_hash |-> users[user_id],
                       epoch_minute |-> now \div WINDOW_SECONDS, read_at |-> now,
                       current |-> 0, http |-> 0]]
    /\ UNCHANGED <<users, sessions, chat_logs, memory_facts, job_queue, rate_limits,
                   now, nops, last>>

\* A limiter that lets one request more through.
RateOutcome_late(current) == IF current > RATE_LIMIT_REQUESTS_PER_MIN + 1 THEN 429 ELSE 200

\* The outcome of the limiter for a count: raise 429 or return (200 stands
\* for the request going on to its handler).
RateOutcome(current) == IF current > RATE_LIMIT_REQUESTS_PER_MIN THEN 429 ELSE 200

\* current = await redis.incr(key); when current # 1 the check follows at once.
RedisIncr(r) ==
    LET key == RateKey(workers[r])
        current == IF LiveKey(key) THEN rate_limits[key].count + 1 ELSE 1
        expires_at == IF LiveKey(key) THEN rate_limits[key].expires_at ELSE NoTTL
    IN
    /\ workers[r].pc = "timed"
    /\ rate_limits' = [k \in DOMAIN rate_limits \cup {key} |->
                          IF k = key THEN [count |-> current, expires_at |-> expires_at]
                          ELSE rate_limits[k]]
    /\ workers' = [workers EXCEPT ![r].current = current,
                                  ![r].pc = IF current = 1 THEN "first" ELSE "done",
                                  ![r].http = IF current = 1 THEN 0 ELSE RateOutcome(current)]
    /\ UNCHANGED <<users, sessions, chat_logs, memory_facts, job_queue, now, nops, last>>

\* if current == 1: await redis.expire(key, 90); then the check.
RedisExpire(r) ==
    LET key == RateKey(workers[r]) IN
    /\ workers[r].pc = "first"
    /\ rate_limits' = IF LiveKey(key)
                      THEN [rate_limits EXCEPT ![key].expires_at = now + RATE_LIMIT_TTL]
                      ELSE rate_limits
    /\ workers' = [workers EXCEPT ![r].pc = "done",
                                  ![r].http = RateOutcome(workers[r].current)]
    /\ UNCHANGED <<users, sessions, chat_logs, memory_facts, job_queue, now, nops, last>>

\* Time passes.  A command reaches Redis within ClockStep seconds of the
\* request reading the clock: the clock does not advance a second time
\* while a request waits to count.
ClockTick ==
    /\ now < MaxRateClock
    /\ \A r \in Requests : workers[r].pc = "timed" => workers[r].read_at = now
    /\ now' = now + ClockStep
    /\ UNCHANGED <<users, sessions, chat_logs, memory_facts, job_queue, rate_limits,
                   workers, nops, last>>

NextRate ==
    \/ \E r \in Requests, user_id \in UserIds : RateLimitEnter(r, user_id)
    \/ \E r \in Requests : RedisIncr(r)
    \/ \E r \in Requests : RedisExpire(r)
    \/ ClockTick

SpecRate == InitRate /\ [][NextRate]_vars

(***************************************************************************)
(* The arq worker running extraction jobs (WorkerSettings: retry_jobs,     *)
(* max_tries).  Here the clock counts seconds.  arq counts the starts of a *)
(* job in job_try, gives a job up once job_try exceeds max_tries, and      *)
(* leaves a job whose run raised Retry in the queue, due defer seconds     *)
(* later.  workers holds these counters and what the gateway did in the    *)
(* last run.                                                               *)
(***************************************************************************)
JobIds == {1, 2}

max_tries == 5
RETRY_DEFER == 30

\* embed_texts is not reached when chat_structured raises.
NotCalled == ""

QueuedJob(job_id, session_id, score) ==
    [function |-> "extract_facts_task", args |-> session_id, job_id |-> job_id, score |-> score]

\* The store after an extraction run on "I work at Google as a senior
\* engineer" at time 4.
StoreWithEmployer ==
    LET st == StageExtracted(StatedFacts(SaysGoogle), 1, << >>, 1, 1, 4,
                  [objs |-> << >>, pending |-> << >>, supersede_queue |-> << >>])
    IN ExtractionCommit(<< >>, << >>, << >>, st, TRUE, 4)

InitJobs ==
    /\ users = [u \in UserIds |-> hash_api_key(KeyOf(u))]
    /\ sessions = [s \in {1, 2} |-> s]
    /\ chat_logs = InitialLogs(<<SaysGoogle, SaysInitech>>)
    /\ memory_facts = StoreWithEmployer
    /\ job_queue = <<QueuedJob(1, 1, 5), QueuedJob(2, 2, 5)>>
    /\ rate_limits = << >>
    /\ workers = [job_try |-> [j \in JobIds |-> 0], runs |-> [j \in JobIds |-> 0],
                  job_id |-> 0, chat |-> NotCalled, embed |-> NotCalled, finished |-> FALSE]
    /\ now = 5
    /\ nops = 0
    /\ last = [op |-> "init", user_id |-> NULL, arg |-> 0, http |-> 0, status |-> "",
               pre |-> << >>, cands |-> << >>, existing |-> << >>, result |-> NoResult,
               prev |-> NoCall]

\* The queue without its i-th job.
WithoutJob(queue, i) == [k \in 1..(Len(queue) - 1) |-> IF k < i THEN queue[k] ELSE queue[k + 1]]

\* The worker starts the due job at position i: arq counts the start and
\* runs extract_facts_task, whose gateway calls end as chat and embed say.
RunExtractionJob(i, chat, embed) ==
    \E t \in {now + 1} :
    LET job == job_queue[i] IN
    /\ i \in DOMAIN job_queue
    /\ job.score <= now
    /\ workers.job_try[job.job_id] < max_tries
    /\ now' = t
    /\ nops' = nops + 1
    /\ extract_facts_task(job.args, t, chat, embed)
    /\ workers' = [workers EXCEPT !.job_try[job.job_id] = @ + 1,
                                  !.runs[job.job_id] = @ + 1,
                                  !.job_id = job.job_id, !.chat = chat, !.embed = embed,
                                  !.finished = last'.status # "retry"]
    /\ job_queue' = IF last'.status = "retry"
                    THEN [job_queue EXCEPT ![i].score = t + RETRY_DEFER]
                    ELSE WithoutJob(job_queue, i)
    /\ UNCHANGED <<users, sessions, rate_limits, chat_logs>>

\* The worker starts a job that has used its tries: arq fails it without
\* calling the task.
AbortJob(i) ==
    LET job == job_queue[i] IN
    /\ i \in DOMAIN job_queue
    /\ job.score <= now
    /\ workers.job_try[job.job_id] >= max_tries
    /\ workers' = [workers EXCEPT !.job_try[job.job_id] = @ + 1,
                                  !.job_id = job.job_id, !.chat = NotCalled, !.embed = NotCalled,
                                  !.finished = TRUE]
    /\ job_queue' = WithoutJob(job_queue, i)
    /\ last' = Outcome("job", NULL, job.args, 0, "max_tries_exceeded", memory_facts,
                       << >>, << >>, NoResult)
    /\ UNCHANGED <<users, sessions, rate_limits, chat_logs, memory_facts, now, nops>>

\* No job is due: time passes until the first deferred job is.
AwaitDeferred ==
    /\ Len(job_queue) > 0
    /\ \A i \in DOMAIN job_queue : job_queue[i].score > now
    /\ now' = Min({job_queue[i].score : i \in DOMAIN job_queue})
    /\ UNCHANGED <<users, sessions, rate_limits, chat_logs, memory_facts, job_queue,
                   workers, nops, last>>

NextJobs ==
    \/ \E i \in DOMAIN job_queue, chat \in CallOutcomes :
       \E embed \in (IF chat = "ok" THEN CallOutcomes ELSE {NotCalled}) :
          RunExtractionJob(i, chat, embed)
    \/ \E i \in DOMAIN job_queue : AbortJob(i)
    \/ AwaitDeferred

SpecJobs == InitJobs /\ [][NextJobs]_vars

(***************************************************************************)
(* The arq worker running consolidation jobs, enqueued by                  *)
(* trigger_consolidation and scheduled_consolidation.  The clock counts    *)
(* seconds; workers holds arq's counters and what the gateway did in the   *)
(* last run, as for the extraction jobs.                                   *)
(***************************************************************************)
\* Consolidation jobs enqueued in a behaviour.
MaxConsolidations == 3

CONSOLIDATION_DEFER == 60

ConsolidationJob(job_id, user_id, score) ==
    [function |-> "consolidate_user_memory", args |-> user_id, job_id |-> job_id,
     score |-> score]

InitConsolidateJobs ==
    /\ users = [u \in UserIds |-> hash_api_key(KeyOf(u))]
    /\ sessions = [s \in {1, 2} |-> s]
    /\ chat_logs = InitialLogs(<<SaysGoogle, SaysInitech>>)
    /\ memory_facts = StoreWithEmployer
    /\ job_queue = << >>
    /\ rate_limits = << >>
    /\ workers = [job_try |-> [j \in 1..MaxConsolidations |-> 0],
                  runs |-> [j \in 1..MaxConsolidations |-> 0],
                  job_id |-> 0, chat |-> NotCalled, embed |-> NotCalled, finished |-> FALSE]
    /\ now = 5
    /\ nops = 0
    /\ last = [op |-> "init", user_id |-> NULL, arg |-> 0, http |-> 0, status |-> "",
               pre |-> << >>, cands |-> << >>, existing |-> << >>, result |-> NoResult,
               prev |-> NoCall]

\* enqueue_job("consolidate_user_memory", str(user_id))
EnqueueConsolidation(user_id) ==
    /\ nops < MaxConsolidations
    /\ nops' = nops + 1
    /\ job_queue' = Append(job_queue, ConsolidationJob(nops + 1, user_id, now))
    /\ UNCHANGED <<users, sessions, rate_limits, chat_logs, memory_facts, workers, now, last>>

\* The worker starts the due job at position i and runs
\* consolidate_user_memory; chat is what the call of the profile summary
\* does.  A run that raised Retry would leave the job queued, due 60 s later.
RunConsolidationJob(i, chat) ==
    \E t \in {now + 1} :
    LET job == job_queue[i] IN
    /\ i \in DOMAIN job_queue
    /\ job.score <= now
    /\ workers.job_try[job.job_id] < max_tries
    /\ now' = t
    /\ consolidate_user_memory(job.args, t, chat)
    /\ workers' = [workers EXCEPT !.job_try[job.job_id] = @ + 1,
                                  !.runs[job.job_id] = @ + 1,
                                  !.job_id = job.job_id, !.chat = chat,
                                  !.finished = last'.status # "retry"]
    /\ job_queue' = IF last'.status = "retry"
                    THEN [job_queue EXCEPT ![i].score = t + CONSOLIDATION_DEFER]
                    ELSE WithoutJob(job_queue, i)
    /\ UNCHANGED <<users, sessions, rate_limits, chat_logs, nops>>

NextConsolidateJobs ==
    \/ \E user_id \in UserIds : EnqueueConsolidation(user_id)
    \/ \E i \in DOMAIN job_queue, chat \in CallOutcomes : RunConsolidationJob(i, chat)

SpecConsolidateJobs == InitConsolidateJobs /\ [][NextConsolidateJobs]_vars

(***************************************************************************)
(* consolidate_user_memory run by two jobs of the worker at once (max_jobs *)
(* = 10), step by step around its two awaits of the profile summary: the   *)
(* chat call and the query for the existing summary both come before the   *)
(* commit, and each run has its own database session.  The clock is in     *)
(* days; the decay task and the passing of time run beside the jobs.       *)
(***************************************************************************)
MaxSummaryRuns == 2    \* runs of consolidate_user_memory per job slot

IdleSummaryRun ==
    [pc |-> "idle", arg |-> 0, snap |-> << >>, profile |-> NoText, found |-> {}, runs |-> 0]

\* The store after extract_facts_task has run once on the conversation
\* "I live in SF" / "I reside in San Francisco" and the response held the
\* second statement only: one fact, confident enough for the summary.
StoreWithHome ==
    LET st == StageExtracted(StatedFacts(SaysSanFrancisco), 1, << >>, 1, 3, 4,
                  [objs |-> << >>, pending |-> << >>, supersede_queue |-> << >>])
    IN ExtractionCommit(<< >>, << >>, << >>, st, TRUE, 4)

InitSummaryRace ==
    /\ users = [u \in UserIds |-> hash_api_key(KeyOf(u))]
    /\ sessions = [s \in {1, 2} |-> s]
    /\ chat_logs = InitialLogs(<<SaysSF, SaysSanFrancisco>>)
    /\ memory_facts = StoreWithHome
    /\ job_queue = << >>
    /\ rate_limits = << >>
    /\ workers = [w \in Workers |-> IdleSummaryRun]
    /\ now = 5
    /\ nops = 0
    /\ last = [op |-> "init", user_id |-> NULL, arg |-> 0, http |-> 0, status |-> "",
               pre |-> << >>, cands |-> << >>, existing |-> << >>, result |-> NoResult,
               prev |-> NoCall]

\* Steps 1 to 3: the active facts are loaded; merging and promotion change
\* the objects in memory only.  Without facts the run ends with no_facts.
SummaryLoad(w, user_id) ==
    \E t \in {now + 1} :
    LET plan == ConsolidationPlan(memory_facts, user_id) IN
    /\ workers[w].pc = "idle"
    /\ workers[w].runs < MaxSummaryRuns
    /\ now' = t
    /\ workers' = [workers EXCEPT ![w] =
                      [pc |-> IF Len(plan.all_facts) = 0 THEN "idle" ELSE "loaded",
                       arg |-> user_id, snap |-> memory_facts, profile |-> NoText,
                       found |-> {}, runs |-> @.runs + 1]]
    /\ last' = Outcome("consolidate_load", NULL, user_id, 0,
                       IF Len(plan.all_facts) = 0 THEN "no_facts" ELSE "", memory_facts,
                       << >>, plan.all_facts, NoResult)
    /\ UNCHANGED <<users, sessions, rate_limits, chat_logs, memory_facts, job_queue, nops>>

\* Step 4 up to the commit: the profile summary is generated and, if there
\* is one, the existing summary is selected; the query sees what is
\* committed and what this run has flushed.
SummarySelect(w, chat) ==
    \E t \in {now + 1} :
    LET job == workers[w]
        plan == ConsolidationPlan(job.snap, job.arg)
        profile == _generate_profile_summary(SummaryCandidates(plan), chat)
        flushed == FlushUpdates(memory_facts, job.snap, plan.objs, Range(plan.all_facts))
    IN
    /\ job.pc = "loaded"
    /\ now' = t
    /\ workers' = [workers EXCEPT ![w].pc = "selected", ![w].profile = profile,
                                  ![w].found = IF profile = NoText THEN {}
                                               ELSE ProfileSummaryIds(flushed, job.arg)]
    /\ last' = Outcome("consolidate_select", NULL, job.arg, 0, "", memory_facts,
                       << >>, plan.all_facts, NoResult)
    /\ UNCHANGED <<users, sessions, rate_limits, chat_logs, memory_facts, job_queue, nops>>

\* The update or the insert of the summary, and await db.commit().
SummaryCommit(w) ==
    \E t \in {now + 1} :
    LET job == workers[w]
        plan == ConsolidationPlan(job.snap, job.arg)
        done == SummaryUpsert(memory_facts, job.snap, plan, job.arg, job.profile,
                              job.found, t)
    IN
    /\ job.pc = "selected"
    /\ Len(done.facts) <= MaxFacts
    /\ now' = t
    /\ memory_facts' = done.facts
    /\ workers' = [workers EXCEPT ![w] = [IdleSummaryRun EXCEPT !.runs = job.runs]]
    /\ last' = Outcome("consolidate", NULL, job.arg, 0, done.status, memory_facts,
                       << >>, plan.all_facts, NoResult)
    /\ UNCHANGED <<users, sessions, rate_limits, chat_logs, job_queue, nops>>

NextSummaryRace ==
    \/ \E w \in Workers, user_id \in UserIds : SummaryLoad(w, user_id)
    \/ \E w \in Workers, chat \in {"ok", "APITimeoutError"} : SummarySelect(w, chat)
    \/ \E w \in Workers : SummaryCommit(w)
    \/ DecayStaleFacts
    \/ PassTime

SpecSummaryRace == InitSummaryRace /\ [][NextSummaryRace]_vars

(***************************************************************************)
(* decay_stale_facts over tables of every kind: rows of both users,        *)
(* active, superseded or soft-deleted, refreshed long ago, exactly         *)
(* DECAY_CUTOFF_DAYS before the first run, or lately, with confidences     *)
(* down to the floor.  The clock is in days.                               *)
(***************************************************************************)
MaxDecayFacts == 2

DecayStart == 40    \* the day before the first decay run can happen

DecayShapes ==
    [confidence_score : {DECAY_FLOOR, DECAY_FLOOR + 1, 50, 100},
     last_refreshed_at : {5, DecayStart + 1 - DECAY_CUTOFF_DAYS, DecayStart - 5},
     state : {"active", "superseded", "expired"}]

\* Row i of a table of n rows: the users alternate; a superseded row points
\* to the next row of the table.
DecayRow(i, n, shape) ==
    [MemoryFact(((i - 1) % 2) + 1, BIOGRAPHICAL, LivesInSF, shape.confidence_score,
                "location", CURRENT, NULL, FALSE)
        EXCEPT !.created_at = 5,
               !.last_refreshed_at = shape.last_refreshed_at,
               !.superseded_by = IF shape.state = "superseded" THEN (i % n) + 1 ELSE NULL,
               !.expires_at = IF shape.state = "expired" THEN DecayStart ELSE NULL]

InitDecay ==
    /\ users = [u \in UserIds |-> hash_api_key(KeyOf(u))]
    /\ sessions = [s \in {1, 2} |-> s]
    /\ chat_logs = InitialLogs(<<SaysSF, SaysSanFrancisco>>)
    /\ \E n \in 0..MaxDecayFacts :
       \E shapes \in [1..n -> DecayShapes] :
          /\ \A i \in 1..n : shapes[i].state = "superseded" => n >= 2
          /\ memory_facts = [i \in 1..n |-> DecayRow(i, n, shapes[i])]
    /\ job_queue = << >>
    /\ rate_limits = << >>
    /\ workers = << >>
    /\ now = DecayStart
    /\ nops = 0
    /\ last = [op |-> "init", user_id |-> NULL, arg |-> 0, http |-> 0, status |-> "",
               pre |-> << >>, cands |-> << >>, existing |-> << >>, result |-> NoResult,
               prev |-> NoCall]

NextDecay ==
    \/ DecayStaleFacts
    \/ PassTime

SpecDecay == InitDecay /\ [][NextDecay]_vars

(***************************************************************************)
(* app/api/recall.py: POST /v1/recall as a whole, over a store that holds  *)
(* facts of every kind the stages tell apart.  The clock is in days.       *)
(***************************************************************************)
MaxRecalls == 1

RecallDay == 20    \* the day before the first request

\* A row as the worker has stored it.
StoredFact(user_id, category, content, confidence_score, temporal_state, created_at, embedding) ==
    [MemoryFact(user_id, category, content, confidence_score, NoSlot, temporal_state,
                NULL, FALSE)
        EXCEPT !.created_at = created_at, !.last_refreshed_at = created_at,
               !.embedding = embedding]

\* User 1: a superseded and a current home, a past home, two employers, a
\* preference stored without embedding, a deleted fact; user 2: a home.
RecallStore ==
    << [StoredFact(1, BIOGRAPHICAL, LivesInSF, 70, CURRENT, 2, <<10, 3>>)
           EXCEPT !.superseded_by = 2],
       StoredFact(1, BIOGRAPHICAL, ResidesInSanFrancisco, 75, CURRENT, 4, <<10, 4>>),
       StoredFact(1, BIOGRAPHICAL, PreviouslyLivedInDallas, 80, PAST, 18, <<3, 10>>),
       StoredFact(1, WORK_CONTEXT, WorksAtGoogle, 90, CURRENT, 5, <<10, 0>>),
       StoredFact(1, WORK_CONTEXT, EmployedByInitech, 80, CURRENT, 18, <<-10, 2>>),
       StoredFact(1, USER_PREFERENCE, PrefersDarkMode, 50, CURRENT, 18, << >>),
       [StoredFact(1, LEARNING, LearningRustBasics, 80, CURRENT, 19, <<-5, -5>>)
           EXCEPT !.expires_at = 19],
       StoredFact(2, BIOGRAPHICAL, LivesInSF, 70, CURRENT, 18, <<10, 3>>) >>

\* The requests sent: RecallRequest as the handler reads it.
SentRequests ==
    {RecallRequest(user_id, query, limit, categories, flags[1], flags[2], flags[3]) :
        user_id \in UserIds,
        query \in {WhereDoILive, WhoAmIAndWhereDoIWork, Rust},
        limit \in {1, 5},
        categories \in {{}, {USER_PREFERENCE}},
        flags \in {<<FALSE, TRUE, NoAge>>, <<TRUE, FALSE, NoAge>>,
                   <<FALSE, TRUE, PROMOTE_REFRESH_DAYS>>}}

InitRecall ==
    /\ users = [u \in UserIds |-> hash_api_key(KeyOf(u))]
    /\ sessions = [s \in {1, 2} |-> s]
    /\ chat_logs = InitialLogs(<<SaysSF, SaysSanFrancisco>>)
    /\ memory_facts = RecallStore
    /\ job_queue = << >>
    /\ rate_limits = << >>
    /\ workers = << >>
    /\ now = RecallDay
    /\ nops = 0
    /\ last = [op |-> "init", user_id |-> NULL, arg |-> 0, http |-> 0, status |-> "",
               pre |-> << >>, cands |-> << >>, existing |-> << >>, result |-> NoResult,
               prev |-> NoCall]

\* A recall that answers with an error when the embedding call fails.
recall_status_strict(embed, body) ==
    IF embed # "ok" \/ body # "ok" THEN 503 ELSE 200

\* The try block of recall_facts: an exception of the embedding call is
\* logged; any other exception of the body (body: what get_llm_provider or
\* a query raised, "ok" for nothing) becomes RecallError, status 503.
recall_status(embed, body) ==
    IF body # "ok" THEN 503 ELSE 200

\* The response of recall_facts at time t.  current: the count the rate
\* limiter reads for the key; embed: the outcome of embed_texts; body: see
\* recall_status.
recall_response(request, api_key, current, embed, body, t) ==
    LET denied == ensure_user_authorized(request.user_id, api_key)
        http == IF denied # 0 THEN denied
                ELSE IF RateOutcome(current) # 200 THEN RateOutcome(current)
                ELSE recall_status(embed, body)
        query_embedding == IF embed = "ok" THEN embed_text(request.query) ELSE << >>
    IN [http |-> http,
        status |-> IF http = 503 THEN "recall_unavailable" ELSE "",
        result |-> IF http = 200
                   THEN recall_facts(memory_facts, request, query_embedding, t)
                   ELSE NoResult]

\* POST /v1/recall with a body that has passed validation.
RecallFacts(request, api_key, current, embed, body) ==
    \E t \in {now + 1} :
    LET response == recall_response(request, api_key, current, embed, body, t) IN
    /\ nops < MaxRecalls
    /\ nops' = nops + 1
    /\ now' = t
    /\ last' = Outcome("recall", request.user_id, request, response.http, response.status,
                       memory_facts, <<api_key, current, embed, body>>, << >>,
                       response.result)
    /\ UNCHANGED <<users, sessions, rate_limits, chat_logs, memory_facts, job_queue, workers>>

NextRecall ==
    \E request \in SentRequests, api_key \in ApiKeys,
       current \in {1, RATE_LIMIT_REQUESTS_PER_MIN + 1},
       embed \in {"ok", "APITimeoutError", "Exception"}, body \in {"ok", "Exception"} :
          RecallFacts(request, api_key, current, embed, body)

SpecRecall == InitRecall /\ [][NextRecall]_vars

(***************************************************************************)
(* app/schemas: RecallRequest, the validation FastAPI runs on the body of  *)
(* POST /v1/recall before it calls the handler.  A query is the string of  *)
(* the body.                                                               *)
(***************************************************************************)
LIMIT_MAX == 20

DEFAULT_LIMIT == 5

SentQueries == {"", "   ", "rust", "where do i live"}

SentLimits == {0, 1, DEFAULT_LIMIT, LIMIT_MAX, LIMIT_MAX + 1}

\* query: str = Field(..., min_length=1); limit: int = Field(default=5, ge=1, le=20)
RecallRequestValid(query, limit) ==
    /\ Len(query) >= 1
    /\ limit >= 1 /\ limit <= LIMIT_MAX

\* The query as the handler works on it: its words, lower case
\* (re.findall(r'\b\w+\b', query.lower())).
QueryText(query) ==
    CASE query = "rust" -> Rust
      [] query = "where do i live" -> WhereDoILive
      [] OTHER -> Text(FALSE, << >>)

\* POST /v1/recall from the body on: 422 from the validation, else the
\* handler.  A rejected request makes no call (cands is empty).
PostRecall(user_id, query, limit, api_key, embed) ==
    \E t \in {now + 1} :
    LET request == RecallRequest(user_id, QueryText(query), limit, {}, FALSE, TRUE, NoAge)
        response == recall_response(request, api_key, 1, embed, "ok", t)
    IN
    /\ nops < MaxRecalls
    /\ nops' = nops + 1
    /\ now' = t
    /\ IF RecallRequestValid(query, limit)
       THEN last' = Outcome("recall", user_id, request, response.http, response.status,
                            memory_facts, <<api_key, 1, embed, "ok">>, <<query, limit>>,
                            response.result)
       ELSE last' = Outcome("recall", user_id, 0, 422, "validation_error",
                            memory_facts, << >>, <<query, limit>>, NoResult)
    /\ UNCHANGED <<users, sessions, rate_limits, chat_logs, memory_facts, job_queue, workers>>

NextValidate ==
    \E user_id \in UserIds, query \in SentQueries, limit \in SentLimits,
       api_key \in ApiKeys, embed \in {"ok", "Exception"} :
          PostRecall(user_id, query, limit, api_key, embed)

SpecValidate == InitRecall /\ [][NextValidate]_vars

(***************************************************************************)
(* Generic profile queries ("who am I ...") that also carry an intent      *)
(* keyword, sent over the same store.                                      *)
(***************************************************************************)
GenericRequests ==
    {RecallRequest(user_id, query, limit, categories, flags[1], flags[2], flags[3]) :
        user_id \in UserIds,
        query \in {WhoAmIAndWhatDoILike, WhoAmIAndWhereDoIWork},
        limit \in {1, 2, 5},
        categories \in {{}, {WORK_CONTEXT}},
        flags \in {<<FALSE, TRUE, NoAge>>, <<TRUE, FALSE, NoAge>>}}

NextGeneric ==
    \E request \in GenericRequests, api_key \in ApiKeys,
       current \in {1, RATE_LIMIT_REQUESTS_PER_MIN + 1},
       embed \in {"ok", "APITimeoutError"}, body \in {"ok", "Exception"} :
          RecallFacts(request, api_key, current, embed, body)

SpecGeneric == InitRecall /\ [][NextGeneric]_vars

(***************************************************************************)
(* The job queue end to end: the API and the two cron fan-outs place jobs  *)
(* on the queue by function name, and the worker looks the name up among   *)
(* WorkerSettings.functions.  A name with no registered function is        *)
(* reported as "function not found" by the worker library and the job is   *)
(* finished without running anything.                                      *)
(***************************************************************************)
CONSOLIDATION_ACTIVITY_DAYS == 7

\* Bound on the jobs waiting in the queue.
MaxQueue == 3

\* WorkerSettings.functions, by the name each function is registered under.
WorkerFunctions ==
    {"extract_facts_task", "optimize_user_memory", "scheduled_optimization",
     "decay_stale_facts", "consolidate_user_memory", "scheduled_consolidation"}

\* for user_id in user_ids: enqueue_job(function, str(user_id))
FanOut(function, user_ids) ==
    [i \in 1..Len(user_ids) |-> [function |-> function, args |-> user_ids[i]]]

\* scheduled_optimization(ctx)
scheduled_optimization ==
    \E t \in {now + 1} :
    \E user_ids \in Orderings({memory_facts[id].user_id : id \in FactIds(memory_facts)}) :
    /\ Step(t)
    /\ Len(job_queue) + Len(user_ids) <= MaxQueue
    /\ UNCHANGED <<users, sessions, rate_limits, chat_logs, memory_facts, workers>>
    /\ job_queue' = job_queue \o FanOut("optimize_user_memory", user_ids)
    /\ last' = Outcome("scheduled_optimization", NULL, user_ids, 0, "", memory_facts,
                       << >>, << >>, NoResult)

\* scheduled_consolidation(ctx)
scheduled_consolidation ==
    \E t \in {now + 1} :
    \E user_ids \in Orderings({memory_facts[id].user_id :
                               id \in {f \in FactIds(memory_facts) :
                                       memory_facts[f].created_at >=
                                           t - CONSOLIDATION_ACTIVITY_DAYS}}) :
    /\ Step(t)
    /\ Len(job_queue) + Len(user_ids) <= MaxQueue
    /\ UNCHANGED <<users, sessions, rate_limits, chat_logs, memory_facts, workers>>
    /\ job_queue' = job_queue \o FanOut("consolidate_user_memory", user_ids)
    /\ last' = Outcome("scheduled_consolidation", NULL, user_ids, 0, "", memory_facts,
                       << >>, << >>, NoResult)

\* The worker takes job i off the queue and runs the function registered
\* under its name, if there is one.
WorkerDispatch(i) ==
    \E t \in {now + 1} :
    LET job == job_queue[i] IN
    /\ Step(t)
    /\ UNCHANGED <<users, sessions, rate_limits, chat_logs, workers>>
    /\ job_queue' = [k \in 1..(Len(job_queue) - 1) |->
                        IF k < i THEN job_queue[k] ELSE job_queue[k + 1]]
    /\ IF job.function \notin WorkerFunctions
       THEN /\ memory_facts' = memory_facts
            /\ last' = Outcome("dispatch", NULL, job, 0, "function_not_found", memory_facts,
                               << >>, << >>, NoResult)
       ELSE IF job.function = "extract_facts_task"
       THEN \E chat \in {"ok", "APITimeoutError"}, embed \in {"ok", "Exception"} :
               extract_facts_task(job.args, t, chat, embed)
       ELSE IF job.function = "optimize_user_memory"
       THEN optimize_user_memory(job.args, t)
       ELSE \E chat \in {"ok", "APITimeoutError"} :
               consolidate_user_memory(job.args, t, chat)

NextQueue ==
    \/ \E user_id \in UserIds, session_id \in DOMAIN sessions, content \in {SaysAcme} :
           ingest_message(user_id, KeyOf(user_id), session_id, "user", content)
    \/ \E user_id \in UserIds : trigger_consolidation(user_id, KeyOf(user_id))
    \/ scheduled_optimization
    \/ scheduled_consolidation
    \/ \E i \in 1..Len(job_queue) : WorkerDispatch(i)

SpecQueue == InitConsolidateJobs /\ [][NextQueue]_vars

(***************************************************************************)
(* Extraction over a store that already holds the user's employer, with a  *)
(* window in which two more facts of that slot are stated, or one in which *)
(* a current and a former home are stated.                                 *)
(***************************************************************************)
StoreWithGoogle ==
    LET st == StageExtracted(<<StatedFacts(SaysGoogle)[1]>>, 1, << >>, 1, 1, 2,
                  [objs |-> << >>, pending |-> << >>, supersede_queue |-> << >>])
    IN ExtractionCommit(<< >>, << >>, << >>, st, TRUE, 2)

InitSupersede ==
    /\ users = [u \in UserIds |-> hash_api_key(KeyOf(u))]
    /\ sessions = [s \in {1, 2} |-> s]
    /\ \E conv \in {<<SaysAcme, SaysInitech>>, <<SaysInitech, SaysDallas>>,
                     <<SaysSanFrancisco, SaysDallas>>} :
          chat_logs = InitialLogs(conv)
    /\ memory_facts = StoreWithGoogle
    /\ job_queue = << >>
    /\ rate_limits = << >>
    /\ workers = << >>
    /\ now = 3
    /\ nops = 0
    /\ last = [op |-> "init", user_id |-> NULL, arg |-> 0, http |-> 0, status |-> "", pre |-> << >>,
               cands |-> << >>, existing |-> << >>, result |-> NoResult,
               prev |-> NoCall]

SpecSupersede == InitSupersede /\ [][Next]_vars

(***************************************************************************)
(* Extraction over a store holding the user's employer and role, with a    *)
(* window whose statements the model reports with low confidence.          *)
(***************************************************************************)
InitThreshold ==
    /\ users = [u \in UserIds |-> hash_api_key(KeyOf(u))]
    /\ sessions = [s \in {1, 2} |-> s]
    /\ \E conv \in {<<SaysUnsure, SaysAcme>>, <<SaysLikes, SaysUnsure>>} :
          chat_logs = InitialLogs(conv)
    /\ memory_facts = StoreWithEmployer
    /\ job_queue = << >>
    /\ rate_limits = << >>
    /\ workers = << >>
    /\ now = 5
    /\ nops = 0
    /\ last = [op |-> "init", user_id |-> NULL, arg |-> 0, http |-> 0, status |-> "", pre |-> << >>,
               cands |-> << >>, existing |-> << >>, result |-> NoResult,
               prev |-> NoCall]

SpecThreshold == InitThreshold /\ [][Next]_vars

(***************************************************************************)
(* Ingestion ahead of the worker.  Four messages of session 1 have been    *)
(* ingested and their jobs wait in the queue; more messages arrive, and    *)
(* the jobs that ingestion enqueued are run by extract_facts_task, each    *)
(* reading the window of its session at the time it runs.  workers holds   *)
(* the messages that some run has had in its window.                       *)
(***************************************************************************)
InitWindow ==
    /\ users = [u \in UserIds |-> hash_api_key(KeyOf(u))]
    /\ sessions = [s \in {1, 2} |-> s]
    /\ chat_logs = << ChatLog(1, "user", SaysSF, 1), ChatLog(1, "user", SaysThanks, 2),
                      ChatLog(1, "user", SaysThanks, 3), ChatLog(1, "user", SaysThanks, 4) >>
    /\ memory_facts = << >>
    /\ job_queue = [i \in 1..4 |-> ExtractionJob(1)]
    /\ rate_limits = << >>
    /\ workers = {}
    /\ now = 4
    /\ nops = 0
    /\ last = [op |-> "init", user_id |-> NULL, arg |-> 0, http |-> 0, status |-> "", pre |-> << >>,
               cands |-> << >>, existing |-> << >>, result |-> NoResult,
               prev |-> NoCall]

\* The oldest job of the queue, enqueued by ingestion, is run by
\* extract_facts_task.
RunQueuedExtraction ==
    \E t \in {now + 1} :
    /\ job_queue # << >>
    /\ Head(job_queue) = ExtractionJob(Head(job_queue).args)
    /\ now' = t
    /\ job_queue' = Tail(job_queue)
    /\ workers' = workers \cup Range(SessionWindow(chat_logs, Head(job_queue).args))
    /\ UNCHANGED <<users, sessions, rate_limits, chat_logs, nops>>
    /\ \E chat \in {"ok", "Exception"} :
          extract_facts_task(Head(job_queue).args, t, chat, "ok")

NextWindow ==
    \/ \E session_id \in DOMAIN sessions, content \in {SaysAcme, SaysThanks} :
           ingest_message(session_id, KeyOf(session_id), session_id, "user", content)
    \/ RunQueuedExtraction

SpecWindow == InitWindow /\ [][NextWindow]_vars


(***************************************************************************)
(* app/llm/providers.py: _with_retry.  Here the clock counts tenths of a   *)
(* second.  workers[c] holds a caller of the helper: the attempt of its    *)
(* loop, the provider calls it has made (time and outcome) and the delays  *)
(* it has slept.  Callers run concurrently on the event loop: one sleeps   *)
(* while another calls.                                                    *)
(***************************************************************************)
Callers == {1, 2}

\* _RetryConfig: retries = 3, base_delay = 0.5 (in tenths of a second).
retries == 3
BASE_DELAY_TENTHS == 5

\* Latest time at which a caller enters the helper.
MaxEnterTime == 5

RECURSIVE Pow2(_)
Pow2(n) == IF n = 0 THEN 1 ELSE 2 * Pow2(n - 1)

\* A helper that backs off by the same delay every time.
backoff_delay_flat(attempt) == BASE_DELAY_TENTHS

\* delay = config.base_delay * (2 ** attempt)
backoff_delay(attempt) == BASE_DELAY_TENTHS * Pow2(attempt)

IdleCaller ==
    [pc |-> "idle", attempt |-> 0, calls |-> << >>, delays |-> << >>, wake_at |-> 0,
     result |-> NotCalled]

InitRetry ==
    /\ users = [u \in UserIds |-> hash_api_key(KeyOf(u))]
    /\ sessions = [s \in {1, 2} |-> s]
    /\ chat_logs = << >>
    /\ memory_facts = << >>
    /\ job_queue = << >>
    /\ rate_limits = << >>
    /\ workers = [c \in Callers |-> IdleCaller]
    /\ now = 0
    /\ nops = 0
    /\ last = [op |-> "init", user_id |-> NULL, arg |-> 0, http |-> 0, status |-> "",
               pre |-> << >>, cands |-> << >>, existing |-> << >>, result |-> NoResult,
               prev |-> NoCall]

\* for attempt in range(config.retries): the first iteration.
WithRetryEnter(c) ==
    /\ workers[c].pc = "idle"
    /\ retries > 0
    /\ workers' = [workers EXCEPT ![c].pc = "try", ![c].attempt = 0]
    /\ UNCHANGED <<users, sessions, rate_limits, chat_logs, memory_facts, job_queue,
                   now, nops, last>>

\* return await coro_fn(...), or the except clause: re-raise on the last
\* attempt, otherwise compute the delay and sleep; an exception the clause
\* does not name leaves the helper at once.
ProviderCall(c, outcome) ==
    LET caller == workers[c]
        calls == Append(caller.calls, [at |-> now, outcome |-> outcome])
        delay == backoff_delay(caller.attempt)
    IN
    /\ caller.pc = "try"
    /\ workers' = [workers EXCEPT ![c] =
          IF outcome = "ok"
          THEN [caller EXCEPT !.pc = "returned", !.calls = calls, !.result = outcome]
          ELSE IF outcome \notin TransientErrors \/ caller.attempt = retries - 1
          THEN [caller EXCEPT !.pc = "raised", !.calls = calls, !.result = outcome]
          ELSE [caller EXCEPT !.pc = "sleeping", !.calls = calls,
                              !.delays = Append(caller.delays, delay),
                              !.wake_at = now + delay]]
    /\ UNCHANGED <<users, sessions, rate_limits, chat_logs, memory_facts, job_queue,
                   now, nops, last>>

\* asyncio.sleep(delay) returns: the next iteration of the loop.
SleepDone(c) ==
    /\ workers[c].pc = "sleeping"
    /\ now >= workers[c].wake_at
    /\ workers' = [workers EXCEPT ![c].pc = "try", ![c].attempt = @ + 1]
    /\ UNCHANGED <<users, sessions, rate_limits, chat_logs, memory_facts, job_queue,
                   now, nops, last>>

\* Time passes: to the next wake-up when a caller sleeps, and by half a
\* second while a caller has yet to enter.
RetryTick ==
    LET sleeping == {c \in Callers : workers[c].pc = "sleeping"}
        wake == {workers[c].wake_at : c \in sleeping}
    IN
    /\ \A c \in sleeping : workers[c].wake_at > now
    /\ \/ /\ sleeping # {}
          /\ now' = Min(wake)
       \/ /\ \E c \in Callers : workers[c].pc = "idle"
          /\ now < MaxEnterTime
          /\ now' = now + BASE_DELAY_TENTHS
    /\ UNCHANGED <<users, sessions, rate_limits, chat_logs, memory_facts, job_queue,
                   workers, nops, last>>

NextRetry ==
    \/ \E c \in Callers : WithRetryEnter(c)
    \/ \E c \in Callers, outcome \in CallOutcomes : ProviderCall(c, outcome)
    \/ \E c \in Callers : SleepDone(c)
    \/ RetryTick

SpecRetry == InitRetry /\ [][NextRetry]_vars

(***************************************************************************)
(* consolidate_user_memory, steps 1 and 2, on every table of a bounded     *)
(* family: the active facts of the user are loaded, clustered, and the     *)
(* clusters merged one after the other.  workers holds the locals of the   *)
(* run: all_facts, the clusters still to merge, the cluster merged last    *)
(* and the table before that merge.                                        *)
(***************************************************************************)
\* Rows of a table of the family.
MaxClusterFacts == 3

\* Embeddings 0, 22 and 42 degrees apart from the first: neighbours are
\* similar at 0.92, the first and the last are not.
ClusterEmbeddings == {<< >>, <<10, 0>>, <<10, 4>>, <<10, 9>>}

\* (is_essential, confidence_score, created_at) of a row.
MergeKeys == {<<FALSE, 90, 1>>, <<FALSE, 90, 2>>, <<FALSE, 70, 2>>, <<TRUE, 70, 1>>}

ClusterRow(category, embedding, key) ==
    [MemoryFact(1, category, LivesInSF, key[2], NoSlot, CURRENT, NULL, key[1])
        EXCEPT !.created_at = key[3], !.last_refreshed_at = key[3], !.embedding = embedding]

\* Biographical rows with every embedding, and work rows that are similar
\* to some of them but for the category.
ClusterRows ==
    {ClusterRow(BIOGRAPHICAL, embedding, key) : embedding \in ClusterEmbeddings, key \in MergeKeys}
    \cup {ClusterRow(WORK_CONTEXT, <<10, 4>>, key) : key \in MergeKeys}

\* Two more rows of a third category, for a second cluster.
SecondCluster ==
    {<< >>,
     <<[MemoryFact(1, LEARNING, LearningRustBasics, 90, NoSlot, CURRENT, NULL, FALSE)
           EXCEPT !.created_at = 1, !.last_refreshed_at = 1, !.embedding = <<10, 0>>],
       [MemoryFact(1, LEARNING, LearningRustBasics, 90, NoSlot, CURRENT, NULL, FALSE)
           EXCEPT !.created_at = 1, !.last_refreshed_at = 1, !.embedding = <<10, 0>>]>>}

InitMerge ==
    /\ users = [u \in UserIds |-> hash_api_key(KeyOf(u))]
    /\ sessions = [s \in {1, 2} |-> s]
    /\ chat_logs = << >>
    /\ \E n \in 0..MaxClusterFacts : \E rows \in [1..n -> ClusterRows], more \in SecondCluster :
          memory_facts = rows \o more
    /\ job_queue = << >>
    /\ rate_limits = << >>
    /\ workers = [pc |-> "start", all_facts |-> << >>, clusters |-> {}, found |-> {},
                  merged |-> {}, pre |-> << >>]
    /\ now = 3
    /\ nops = 0
    /\ last = [op |-> "init", user_id |-> NULL, arg |-> 0, http |-> 0, status |-> "",
               pre |-> << >>, cands |-> << >>, existing |-> << >>, result |-> NoResult,
               prev |-> NoCall]

\* all_facts = the active facts, newest first;
\* duplicate_clusters = _find_semantic_duplicate_clusters(all_facts)
FindClusters(user_id) ==
    LET active == ActiveIds(memory_facts, user_id)
        clusters == _find_semantic_duplicate_clusters(memory_facts, active,
                                                      SEMANTIC_DUPLICATE_THRESHOLD)
    IN
    /\ workers.pc = "start"
    /\ workers' = [workers EXCEPT
                      !.pc = "merging",
                      !.all_facts = SortBy(active, [a, b \in active |->
                                                       CreatedDesc(memory_facts, a, b)]),
                      !.clusters = clusters, !.found = clusters]
    /\ UNCHANGED <<users, sessions, rate_limits, chat_logs, memory_facts, job_queue,
                   now, nops, last>>

\* for cluster in duplicate_clusters: winner = await _merge_duplicate_cluster(cluster, db)
MergeCluster(cluster) ==
    /\ workers.pc = "merging"
    /\ cluster \in workers.clusters
    /\ memory_facts' = _merge_duplicate_cluster(memory_facts, workers.all_facts, cluster)
    /\ workers' = [workers EXCEPT !.clusters = @ \ {cluster}, !.merged = cluster,
                                  !.pre = memory_facts]
    /\ UNCHANGED <<users, sessions, rate_limits, chat_logs, job_queue, now, nops, last>>

NextMerge ==
    \/ FindClusters(1)
    \/ \E cluster \in workers.clusters : MergeCluster(cluster)

SpecMerge == InitMerge /\ [][NextMerge]_vars

(***************************************************************************)
(* Properties.  They read the history in last: the table before the last   *)
(* operation (last.pre) against the table after it (memory_facts).         *)
(***************************************************************************)
ExtractionCommitted == last.op = "extract" /\ last.status = "success"

\* The rows the last operation inserted.
NewRows == (Len(last.pre) + 1)..Len(memory_facts)

\* The rows the last extraction loaded.
LoadedRows == Range(last.existing)

SlotCompatible(a, b) ==
    /\ a.category = b.category
    /\ (a.slot_hint = NoSlot \/ b.slot_hint = NoSlot \/ a.slot_hint = b.slot_hint)

\* The first row the last extraction inserted in the slot of row e (or NULL).
FirstNewInSlot(e) ==
    LET hits == {n \in NewRows : SlotCompatible(memory_facts[e], memory_facts[n])}
    IN IF hits = {} THEN NULL ELSE Min(hits)

C3_SecondRunChangesNothing ==
    (ExtractionCommitted /\ last.prev = Call("extract", last.arg, "success", last.cands))
    =>  /\ NewRows = {}
        /\ \A id \in FactIds(last.pre) :
              memory_facts[id].superseded_by = last.pre[id].superseded_by
        /\ \A u \in UserIds : ActiveIds(memory_facts, u) = ActiveIds(last.pre, u)

\* C3: a second run with the same candidates, one of them confident enough to
\* be saved, on a table the first run has written to.
C3_SecondRunHappened ==
    /\ ExtractionCommitted
    /\ last.prev = Call("extract", last.arg, "success", last.cands)
    /\ \E i \in 1..Len(last.cands) : last.cands[i].confidence >= MIN_CONFIDENCE_TO_SAVE
    /\ \E id \in FactIds(last.pre) : last.pre[id].source_message_id # NULL

\* The fact reached from id by following superseded_by n times (NULL: the
\* chain ended before).
RECURSIVE FollowSuperseded(_, _, _)
FollowSuperseded(facts, id, n) ==
    IF id = NULL THEN NULL
    ELSE IF n = 0 THEN id
    ELSE FollowSuperseded(facts, facts[id].superseded_by, n - 1)

\* C4: with the operations run one at a time, following superseded_by from
\* any fact ends: it never comes back to a fact already visited.
C4_SupersededByAcyclic ==
    \A id \in FactIds(memory_facts) :
        FollowSuperseded(memory_facts, id, Len(memory_facts)) = NULL

\* C4: a consolidation has merged a duplicate into a fact that an earlier
\* extraction inserted, beside a fact superseded by extraction or not.
C4_MergedAfterExtraction ==
    /\ last.op = "consolidate"
    /\ \E a \in FactIds(last.pre) :
          /\ last.pre[a].superseded_by = NULL
          /\ memory_facts[a].superseded_by # NULL

\* The candidates of the last extraction that pass the confidence floor.
SavedCands ==
    {i \in 1..Len(last.cands) : last.cands[i].confidence >= MIN_CONFIDENCE_TO_SAVE}

\* The loaded row candidate i duplicates: the first, in the order loaded,
\* whose content scores 75 or more against the normalised candidate.
RefreshTarget(i) ==
    LET content == normalize_fact(last.cands[i].content, last.cands[i].category)
        hits == {k \in 1..Len(last.existing) :
                    _is_fuzzy_duplicate(<<last.pre[last.existing[k]].content>>, content)}
    IN IF hits = {} THEN NULL ELSE last.existing[Min(hits)]

Refreshers(d) == {i \in SavedCands : RefreshTarget(i) = d}

\* C6: an extraction inserts one row per saved candidate that duplicates no
\* loaded fact and none for a duplicate; the duplicated row gets
\* last_refreshed_at = now, strictly later than before, and confidence
\* max(old, candidates'); no other column of it changes on that account and
\* rows that no candidate duplicates keep both columns.
C6_DuplicateRefreshesOnly ==
    ExtractionCommitted =>
        /\ Cardinality(NewRows) = Cardinality({i \in SavedCands : RefreshTarget(i) = NULL})
        /\ \A d \in FactIds(last.pre) :
              /\ IF Refreshers(d) # {}
                 THEN /\ memory_facts[d].last_refreshed_at = now
                      /\ memory_facts[d].last_refreshed_at > last.pre[d].last_refreshed_at
                      /\ memory_facts[d].confidence_score =
                            Max({last.pre[d].confidence_score}
                                \cup {last.cands[i].confidence : i \in Refreshers(d)})
                 ELSE /\ memory_facts[d].last_refreshed_at = last.pre[d].last_refreshed_at
                      /\ memory_facts[d].confidence_score = last.pre[d].confidence_score
              /\ \A col \in DOMAIN last.pre[d] \
                        {"last_refreshed_at", "confidence_score", "superseded_by"} :
                    memory_facts[d][col] = last.pre[d][col]
              /\ NewRows = {} => memory_facts[d].superseded_by = last.pre[d].superseded_by

\* C6: a candidate more confident than the fact it duplicates has refreshed it.
C6_RefreshedWithHigherConfidence ==
    /\ ExtractionCommitted
    /\ NewRows = {}
    /\ \E d \in FactIds(last.pre) :
          /\ Refreshers(d) # {}
          /\ memory_facts[d].confidence_score > last.pre[d].confidence_score

\* C7: an extraction changes superseded_by of an existing fact only to a row
\* it inserted, of a supersedable category, of the same user and category as
\* the fact, and with a slot_hint that is NULL on one side or equal.
C7_SupersedesOnlyInSlot ==
    ExtractionCommitted =>
        \A e \in FactIds(last.pre) :
            memory_facts[e].superseded_by # last.pre[e].superseded_by =>
                LET n == memory_facts[e].superseded_by IN
                /\ n \in NewRows
                /\ memory_facts[n].category \in {BIOGRAPHICAL, WORK_CONTEXT, RELATIONSHIP}
                /\ memory_facts[n].user_id = memory_facts[e].user_id
                /\ SlotCompatible(memory_facts[e], memory_facts[n])

\* C7: a new fact has superseded the fact of its slot while an active fact of
\* the same category and another slot stayed active.
C7_OtherSlotUntouched ==
    /\ ExtractionCommitted
    /\ \E e, o \in FactIds(last.pre) :
          /\ last.pre[e].superseded_by = NULL
          /\ memory_facts[e].superseded_by \in NewRows
          /\ memory_facts[o].category = memory_facts[e].category
          /\ memory_facts[o].slot_hint \notin {NoSlot, memory_facts[e].slot_hint}
          /\ memory_facts[memory_facts[e].superseded_by].slot_hint # NoSlot
          /\ IsActive(last.pre[o])
          /\ IsActive(memory_facts[o])

\* The recall requests the properties range over.
RecallRequests(user_id) ==
    {RecallRequest(user_id, query, limit, categories, include_historical,
                   current_view_only, max_age_days) :
        query \in {WhereDoILive, WhoAmIAndWhereDoIWork, Rust},
        limit \in {1, 5},
        categories \in {{}, {WORK_CONTEXT}},
        include_historical \in BOOLEAN,
        current_view_only \in BOOLEAN,
        max_age_days \in {NoAge, PROMOTE_REFRESH_DAYS}}

\* The rows recall answers a request with, the embedding call failing or not.
RecalledIds(request) ==
    Range(recall_facts(memory_facts, request, << >>, now))
    \cup Range(recall_facts(memory_facts, request, embed_text(request.query), now))

\* The rows some read endpoint answers with in the current state.
ReadableIds ==
    UNION {Range(list_facts(memory_facts, u, 100))
           \cup Range(get_conscious_memory(memory_facts, u))
           \cup UNION {RecalledIds(request) : request \in RecallRequests(u)} :
           u \in UserIds}

\* C8: a successful DELETE keeps the row and sets its expires_at, and a fact
\* whose expires_at is set is returned by no read: not by recall (whatever
\* the request and the stage), not by the facts list, not by the conscious
\* endpoint.
C8_DeletedFactNeverRead ==
    /\ (last.op = "delete_fact" /\ last.http = 204) =>
           /\ Len(memory_facts) = Len(last.pre)
           /\ memory_facts[last.arg].expires_at # NULL
    /\ (\E id \in FactIds(memory_facts) : memory_facts[id].expires_at # NULL) =>
           \A id \in ReadableIds : memory_facts[id].expires_at = NULL

\* C9: an ingest request naming a session of another user is rejected: it
\* inserts no message row and enqueues no job.
C9_CrossUserIngestRejected ==
    ( /\ last.op = "ingest"
      /\ last.arg \in DOMAIN sessions
      /\ sessions[last.arg] # last.user_id )
    =>  /\ last.http # 201
        /\ Len(chat_logs) = last.result[1]
        /\ Len(job_queue) = last.result[2]

\* C10: an authorized ingest request naming a session that does not exist
\* ends with not_found (404), inserts no message row and enqueues no job.
C10_UnknownSessionNotFound ==
    ( /\ last.op = "ingest"
      /\ last.http \notin {401, 403}
      /\ last.arg \notin DOMAIN sessions )
    =>  /\ last.http = 404
        /\ Len(chat_logs) = last.result[1]
        /\ Len(job_queue) = last.result[2]

\* The store a single extraction run leaves when it runs alone on the rows
\* job loaded, with job's candidates.
SingleRunStore(job) ==
    LET window == SessionWindow(chat_logs, job.arg)
        st == StageExtracted(job.cands, 1, job.existing, sessions[job.arg],
                  window[Len(window)], job.loaded_at,
                  [objs |-> job.snap, pending |-> << >>, supersede_queue |-> << >>])
    IN ExtractionCommit(job.snap, job.snap, job.existing, st, TRUE, job.committed_at)

ActiveContents(facts, user_id) ==
    {facts[id].content : id \in ActiveIds(facts, user_id)}

\* C2: two extraction jobs of one session that overlap (each loads before the
\* other commits) and get the same candidates leave what a single run
\* leaves: no candidate is inserted twice and the active facts are the same.
C2_OverlappingRunsAsOne ==
    ( /\ workers[1].pc = "extracted" /\ workers[2].pc = "extracted"
      /\ workers[1].arg = workers[2].arg
      /\ workers[1].cands = workers[2].cands
      /\ workers[1].snap = workers[2].snap
      /\ workers[1].loaded_at < workers[2].committed_at
      /\ workers[2].loaded_at < workers[1].committed_at )
    =>  LET single == SingleRunStore(workers[1]) IN
        /\ Len(memory_facts) = Len(single)
        /\ \A u \in UserIds :
              /\ ActiveContents(memory_facts, u) = ActiveContents(single, u)
              /\ Cardinality(ActiveIds(memory_facts, u)) = Cardinality(ActiveIds(single, u))

\* C5: when worker jobs interleave, no two facts supersede each other.
C5_NoMutualSupersession ==
    \A a, b \in FactIds(memory_facts) :
        ~( /\ a # b
           /\ memory_facts[a].superseded_by = b
           /\ memory_facts[b].superseded_by = a )

\* C11: every ingest call that passes authorization and session validation
\* commits its message row, enqueues one extraction job for that session and
\* answers "queued" (201), however many jobs wait in the queue; and no
\* operation alters or removes a message row that was committed.
C11_IngestAppendsAndEnqueues ==
    /\ [] ( ( /\ last.op = "ingest"
              /\ last.http \notin {401, 403}
              /\ last.arg \in DOMAIN sessions )
            =>  /\ last.http = 201
                /\ last.status = "queued"
                /\ Len(chat_logs) = last.result[1] + 1
                /\ chat_logs[Len(chat_logs)].session_id = last.arg
                /\ chat_logs[Len(chat_logs)].timestamp = now
                /\ Len(job_queue) = last.result[2] + 1
                /\ job_queue[Len(job_queue)].args = last.arg )
    /\ [][ /\ Len(chat_logs') >= Len(chat_logs)
           /\ \A i \in 1..Len(chat_logs) : chat_logs'[i] = chat_logs[i] ]_vars

\* An ingest call was accepted while a job was waiting in the queue.
C11_AcceptedBehindWaitingJob ==
    /\ last.op = "ingest"
    /\ last.http = 201
    /\ last.result[2] >= 1
    /\ Len(job_queue) = last.result[2] + 1

\* Where row m stands in a history response.
PositionIn(hist, m) == CHOOSE i \in 1..Len(hist) : hist[i] = m

\* C12: of two ingest requests for one session, the one the handler received
\* first has the earlier timestamp and stands first when the session is read
\* by timestamp, also when the two handlers overlap; two messages of a
\* session never share a timestamp.
C12_ReceivedOrderIsTimestampOrder ==
    \A a, b \in Handlers :
        ( /\ workers[a].chat_log_id # 0
          /\ workers[b].chat_log_id # 0
          /\ workers[a].session_id = workers[b].session_id
          /\ workers[a].received < workers[b].received )
        => LET hist == get_history(chat_logs, workers[a].session_id, HISTORY_LIMIT)
               window == SessionWindow(chat_logs, workers[a].session_id)
           IN /\ chat_logs[workers[a].chat_log_id].timestamp
                    < chat_logs[workers[b].chat_log_id].timestamp
              /\ PositionIn(hist, workers[a].chat_log_id)
                    < PositionIn(hist, workers[b].chat_log_id)
              /\ PositionIn(window, workers[a].chat_log_id)
                    < PositionIn(window, workers[b].chat_log_id)

\* A step that wrote nothing: no row inserted or updated, no job enqueued.
NoEffect == UNCHANGED <<users, sessions, chat_logs, memory_facts, job_queue>>

\* The step is a request that must be denied and it is: 401 without a key,
\* 403 with a key whose hash is not the target user's, nothing written.
DeniedAsSpecified(target_user, api_key) ==
    /\ api_key = NoKey => (last'.http = 401 /\ NoEffect)
    /\ ( /\ api_key # NoKey
         /\ target_user \in UserIds
         /\ users[target_user] # hash_api_key(api_key) )
       => (last'.http = 403 /\ NoEffect)

\* C13: on every endpoint that takes X-API-Key, a request without a key ends
\* with 401 and a request whose key hash differs from the target user's
\* stored hash ends with 403; neither writes a row or enqueues a job.
C13_BadKeyDeniedWithoutEffect ==
    [][ \A api_key \in KeysSoFar :
          /\ \A user_id \in UserIds :
                /\ (\E session_id \in DOMAIN sessions \cup {NoSession} :
                        ingest_message(user_id, api_key, session_id, "user", SaysAcme))
                   => DeniedAsSpecified(user_id, api_key)
                /\ rotate_api_key(user_id, api_key) => DeniedAsSpecified(user_id, api_key)
                /\ revoke_api_key(user_id, api_key) => DeniedAsSpecified(user_id, api_key)
                /\ trigger_consolidation(user_id, api_key)
                   => DeniedAsSpecified(user_id, api_key)
          /\ \A fact_id \in 1..(Len(memory_facts) + 1) :
                DeleteFact(fact_id, api_key)
                => DeniedAsSpecified(IF fact_id \in FactIds(memory_facts)
                                     THEN memory_facts[fact_id].user_id ELSE NULL,
                                     api_key) ]_vars

\* C14: GET /conscious/{user_id} discloses a user's essential facts only to a
\* caller presenting that user's valid key; with no key or another user's
\* key the response holds none of them.
C14_ConsciousOnlyForOwner ==
    \A user_id \in UserIds, api_key \in ApiKeys :
        ensure_user_authorized(user_id, api_key) # 0
        => conscious_request(user_id, api_key).relevant_facts = << >>

\* The keys issued up to the current state.
IssuedKeys == KeysSoFar \ {NoKey}

\* C15: after a successful rotation the key that was valid before is rejected
\* on every later request for that user and the key returned is accepted;
\* after a successful revoke no key is accepted for that user on any
\* endpoint, rotate included.
C15_RotatedAndRevokedKeysRejected ==
    /\ [] ( (last.op = "rotate" /\ last.http = 200)
            => /\ ensure_user_authorized(last.user_id, last.arg) = 403
               /\ ensure_user_authorized(last.user_id, last.result[1]) = 0 )
    /\ [] ( (last.op = "revoke" /\ last.http = 204)
            => \A api_key \in KeysSoFar :
                   ensure_user_authorized(last.user_id, api_key) # 0 )
    /\ [][ \A user_id \in UserIds, api_key \in IssuedKeys :
               ensure_user_authorized(user_id, api_key) # 0
               => ensure_user_authorized(user_id, api_key)' # 0 ]_vars

\* A key was rotated, the key returned was accepted by a later request (the
\* revoke), and after the revoke the user has no key.
C15_NewKeyAcceptedThenRevoked ==
    /\ last.op = "revoke"
    /\ last.http = 204
    /\ last.arg \in Range(GeneratedKeys)
    /\ users[last.user_id] = NoHash

\* The requests that have counted on the key of request r.
CountedOn(r) ==
    {q \in Requests : /\ workers[q].pc \in {"first", "done"}
                      /\ RateKey(workers[q]) = RateKey(workers[r])}

ExtractionRun == last'.op = "extract" /\ workers'.runs # workers.runs

RunWithChatOk ==
    /\ last.op = "extract"
    /\ last.status # "no_messages"
    /\ workers.chat = "ok"

\* The candidates of the last extraction that were staged: saved, and
\* duplicating no loaded fact.
Staged == {i \in SavedCands : RefreshTarget(i) = NULL}

\* C18: a run whose chat call returned ends with status "success" and its
\* job is not retried, whatever embed_texts did; when embed_texts raised,
\* one row per staged fact is inserted with embedding NULL, the loaded facts
\* in the slot of a new row are superseded as in any run and the duplicated
\* facts are refreshed; every row an extraction inserts has an embedding of
\* dimension D or NULL.
C18_EmbeddingFailureKeepsFacts ==
    /\ RunWithChatOk =>
          /\ last.status = "success"
          /\ workers.finished
          /\ \A i \in DOMAIN job_queue : job_queue[i].job_id # workers.job_id
    /\ (RunWithChatOk /\ workers.embed # "ok" /\ Staged # {}) =>
          /\ Cardinality(NewRows) = Cardinality(Staged)
          /\ \A n \in NewRows : memory_facts[n].embedding = << >>
          /\ {memory_facts[n].content : n \in NewRows} =
                {normalize_fact(last.cands[i].content, last.cands[i].category) : i \in Staged}
          /\ \A e \in LoadedRows :
                LET n == FirstNewInSlot(e) IN
                memory_facts[e].superseded_by =
                    IF /\ n # NULL
                       /\ memory_facts[n].category \in {BIOGRAPHICAL, WORK_CONTEXT, RELATIONSHIP}
                       /\ \/ last.pre[e].superseded_by # NULL
                          \/ memory_facts[n].confidence_score >=
                                 memory_facts[e].confidence_score - SUPERSEDE_CONFIDENCE_BAND
                    THEN n ELSE last.pre[e].superseded_by
          /\ \A d \in FactIds(last.pre) :
                Refreshers(d) # {} =>
                    /\ memory_facts[d].last_refreshed_at > last.pre[d].last_refreshed_at
                    /\ memory_facts[d].confidence_score =
                          Max({last.pre[d].confidence_score}
                              \cup {last.cands[i].confidence : i \in Refreshers(d)})
    /\ (last.op = "extract" /\ last.status = "success") =>
          \A n \in NewRows :
              \/ memory_facts[n].embedding = << >>
              \/ Len(memory_facts[n].embedding) = EMBEDDING_DIM

\* embed_texts raised in a run that staged a fact: the fact was inserted
\* without embedding, it superseded a loaded fact, and a duplicated fact was
\* refreshed.
C18_SupersededWithoutEmbedding ==
    /\ RunWithChatOk
    /\ workers.embed \in TransientErrors
    /\ \E n \in NewRows, e \in LoadedRows :
          /\ memory_facts[n].embedding = << >>
          /\ last.pre[e].superseded_by = NULL
          /\ memory_facts[e].superseded_by = n
    /\ \E d \in FactIds(last.pre) : Refreshers(d) # {}

SecondConsolidation ==
    /\ last.op = "consolidate"
    /\ last.status = "success"
    /\ last.prev = Call("consolidate", last.arg, "success", << >>)

\* What the last operation left of the rows it found: nothing changed but,
\* on a profile_summary row, content, confidence and last_refreshed_at.
OnlySummaryRegenerated ==
    \A id \in FactIds(last.pre) :
        IF last.pre[id].slot_hint = "profile_summary"
        THEN \A col \in DOMAIN last.pre[id] \
                     {"content", "confidence_score", "last_refreshed_at"} :
                memory_facts[id][col] = last.pre[id][col]
        ELSE memory_facts[id] = last.pre[id]

\* Row id was the active profile_summary fact of the user when the last
\* operation began.
HeldSummary(id) ==
    /\ last.pre[id].user_id = last.arg
    /\ last.pre[id].slot_hint = "profile_summary"
    /\ last.pre[id].superseded_by = NULL
    /\ last.pre[id].expires_at = NULL

\* C20 as stated: a consolidation run right after a successful consolidation
\* of the same user inserts no row and changes no fact's superseded_by,
\* is_essential or expires_at; only content, confidence and
\* last_refreshed_at of the profile_summary fact may change.
C20_SecondConsolidationFixedPoint ==
    SecondConsolidation =>
        /\ Len(memory_facts) = Len(last.pre)
        /\ OnlySummaryRegenerated

\* C20 as the code has it: a consolidation run right after a successful
\* consolidation of the same user changes, of the rows it found, only
\* content, confidence and last_refreshed_at of the profile_summary fact; it
\* inserts no row when the user has an active profile_summary fact, and
\* otherwise (every run before skipped the summary) at most that fact:
\* biographical, essential, confidence 1.0, active.
C20_FixedPointUpToFirstSummary ==
    SecondConsolidation =>
        /\ OnlySummaryRegenerated
        /\ IF \E id \in FactIds(last.pre) : HeldSummary(id)
           THEN Len(memory_facts) = Len(last.pre)
           ELSE \/ Len(memory_facts) = Len(last.pre)
                \/ /\ Len(memory_facts) = Len(last.pre) + 1
                   /\ LET row == memory_facts[Len(memory_facts)] IN
                      /\ row.user_id = last.arg
                      /\ row.slot_hint = "profile_summary"
                      /\ row.category = BIOGRAPHICAL
                      /\ row.is_essential
                      /\ row.confidence_score = SUMMARY_CONFIDENCE
                      /\ IsActive(row)

\* A second consolidation in a row has regenerated the summary the first one
\* stored, for a user one of whose facts is superseded.
C20_SummaryRegenerated ==
    /\ SecondConsolidation
    /\ \E id \in FactIds(last.pre) :
          /\ HeldSummary(id)
          /\ memory_facts[id].last_refreshed_at > last.pre[id].last_refreshed_at
    /\ \E id \in FactIds(last.pre) :
          /\ last.pre[id].user_id = last.arg
          /\ last.pre[id].superseded_by # NULL

\* Member a of a cluster is greater than member b under
\* (is_essential, confidence, created_at), compared lexicographically.
GreaterKey(a, b) ==
    \/ (a.is_essential /\ ~b.is_essential)
    \/ /\ a.is_essential = b.is_essential
       /\ \/ a.confidence_score > b.confidence_score
          \/ /\ a.confidence_score = b.confidence_score
             /\ a.created_at > b.created_at

ChainedTo(pool, a) == Component(memory_facts, pool, {a}, SEMANTIC_DUPLICATE_THRESHOLD)

\* C22: the clusters found for the loaded facts are pairwise disjoint, have
\* two facts or more, hold only facts with an embedding and of one category;
\* two facts with embeddings share a cluster exactly when a chain of
\* same-category pairs with similarity >= 0.92 links them; a fact without
\* embedding is in no cluster and no facts give no cluster.
C22_ClustersAreSimilarityComponents ==
    workers.pc = "merging" =>
        LET input == Range(workers.all_facts)
            embedded == {id \in input : memory_facts[id].embedding # << >>}
            found == workers.found
        IN /\ \A c, d \in found : c # d => c \cap d = {}
           /\ \A c \in found :
                 /\ Cardinality(c) >= 2
                 /\ c \subseteq embedded
                 /\ \A a, b \in c : memory_facts[a].category = memory_facts[b].category
           /\ \A a, b \in embedded :
                 a # b => ((\E c \in found : a \in c /\ b \in c) <=> b \in ChainedTo(embedded, a))
           /\ input = {} => found = {}

\* Two clusters were found: one of three facts whose first and last are
\* similar only through the middle one, and one of another category.
C22_ChainAndSecondCluster ==
    /\ Cardinality(workers.found) = 2
    /\ \E c \in workers.found :
          /\ Cardinality(c) = 3
          /\ \E a, b \in c : ~SimilarPair(memory_facts, a, b, SEMANTIC_DUPLICATE_THRESHOLD)
    /\ Len(memory_facts) = 5

\* The step is a run of consolidate_user_memory that reached the call of the
\* profile summary, and the call raised a transient error.
SummaryCallFailedTransiently ==
    /\ last'.op = "consolidate"
    /\ workers'.runs # workers.runs
    /\ workers'.chat \in TransientErrors
    /\ Len(SummaryCandidates(ConsolidationPlan(memory_facts, last'.arg))) > 0

\* C23: a consolidation run whose profile-summary call raises a transient
\* error ends with Retry: the job stays queued, due 60 s later, to be run
\* again, at most max_tries = 5 times.
C23_SummaryFailureRetried ==
    /\ [][SummaryCallFailedTransiently
          => /\ last'.status = "retry"
             /\ \E i \in DOMAIN job_queue' :
                   /\ job_queue'[i].job_id = workers'.job_id
                   /\ job_queue'[i].score = now' + CONSOLIDATION_DEFER]_vars
    /\ [](\A j \in DOMAIN workers.runs : workers.runs[j] <= max_tries)

(***************************************************************************)
(* C24  In every reachable state, also after two consolidation runs for    *)
(* the same user that overlap, each user has at most one active            *)
(* profile_summary fact, and that fact is biographical, is_essential and   *)
(* has confidence 1.0.                                                     *)
(***************************************************************************)
C24_OneActiveSummaryPerUser ==
    \A u \in UserIds :
        LET held == {id \in FactIds(memory_facts) :
                        /\ memory_facts[id].user_id = u
                        /\ memory_facts[id].slot_hint = "profile_summary"
                        /\ memory_facts[id].superseded_by = NULL
                        /\ memory_facts[id].expires_at = NULL}
        IN /\ Cardinality(held) <= 1
           /\ \A id \in held : /\ memory_facts[id].category = BIOGRAPHICAL
                               /\ memory_facts[id].is_essential
                               /\ memory_facts[id].confidence_score = SUMMARY_CONFIDENCE

\* The two halves of C24, apart.
C24_AtMostOneSummary ==
    \A u \in UserIds : Cardinality({id \in FactIds(memory_facts) :
                                       /\ memory_facts[id].user_id = u
                                       /\ memory_facts[id].slot_hint = "profile_summary"
                                       /\ memory_facts[id].superseded_by = NULL
                                       /\ memory_facts[id].expires_at = NULL}) <= 1

(***************************************************************************)
(* C25  No operation (extraction, consolidation, optimize, decay, delete)  *)
(* ever changes a fact's is_essential from true to false: an essential     *)
(* fact is still stored and still essential after every step.              *)
(***************************************************************************)
C25_EssentialNeverCleared ==
    [][\A id \in FactIds(memory_facts) :
          memory_facts[id].is_essential
              => /\ id \in FactIds(memory_facts')
                 /\ memory_facts'[id].is_essential]_vars

\* An operation has changed a fact that was essential before it.
C25_EssentialFactChanged ==
    /\ last.op \in {"extract", "consolidate", "optimize", "decay", "delete_fact"}
    /\ \E id \in FactIds(last.pre) :
          /\ last.pre[id].is_essential
          /\ memory_facts[id] # last.pre[id]
          /\ memory_facts[id].is_essential

(***************************************************************************)
(* C26  A decay run sets confidence to max(0.1, 0.9 x confidence) on       *)
(* exactly the facts that are active and whose last_refreshed_at is more   *)
(* than 30 days before now; it changes no other field of those facts       *)
(* (last_refreshed_at included) and leaves every fact that is superseded,  *)
(* expired or refreshed within 30 days unchanged.  Confidence is stored in *)
(* hundredths: the new value is the product cut to whole hundredths.       *)
(***************************************************************************)
C26_DecayOnlyLowersStaleActive ==
    [][last'.op = "decay" =>
         /\ FactIds(memory_facts') = FactIds(memory_facts)
         /\ \A id \in FactIds(memory_facts) :
               LET old == memory_facts[id]
                   new == memory_facts'[id]
               IN IF /\ old.superseded_by = NULL
                     /\ old.expires_at = NULL
                     /\ now' - old.last_refreshed_at > 30
                  THEN /\ new = [old EXCEPT !.confidence_score = new.confidence_score]
                       /\ IF 9 * old.confidence_score <= 100
                          THEN new.confidence_score = 10
                          ELSE /\ 10 * new.confidence_score <= 9 * old.confidence_score
                               /\ 9 * old.confidence_score < 10 * (new.confidence_score + 1)
                  ELSE new = old]_vars

\* A decay run has lowered one fact to the floor and left alone a fact that
\* is as old but superseded or expired.
C26_FloorReachedInactiveKept ==
    /\ last.op = "decay"
    /\ \E id \in FactIds(last.pre) :
          /\ last.pre[id].confidence_score = 11
          /\ memory_facts[id].confidence_score = 10
    /\ \E id \in FactIds(last.pre) :
          /\ last.pre[id].superseded_by # NULL \/ last.pre[id].expires_at # NULL
          /\ last.pre[id].last_refreshed_at = 5
          /\ memory_facts[id] = last.pre[id]

\* The facts a successful recall has answered with.
Recalled == IF last.op = "recall" /\ last.http = 200 THEN Range(last.result) ELSE {}

(***************************************************************************)
(* C27  Every fact returned by recall, whichever stage produced it         *)
(* (vector, lexical fill, balanced slate, high-confidence top-up), belongs *)
(* to request.user_id, has expires_at NULL, has superseded_by NULL when    *)
(* current_view_only is true, and does not have temporal_state past unless *)
(* include_historical is true.                                             *)
(***************************************************************************)
C27_RecallReturnsOnlyVisibleFacts ==
    \A id \in Recalled :
        /\ id \in FactIds(memory_facts)
        /\ memory_facts[id].user_id = last.arg.user_id
        /\ memory_facts[id].expires_at = NULL
        /\ last.arg.current_view_only => memory_facts[id].superseded_by = NULL
        /\ ~last.arg.include_historical => memory_facts[id].temporal_state # "past"

\* The stages of the recall just answered, as the handler ran them.
RecallEmbedding ==
    IF last.cands[3] = "ok" THEN embed_text(last.arg.query) ELSE << >>

FromVector == Range(VectorResults(last.pre, last.arg, RecallEmbedding))

FromLexical ==
    Range(LexicalFill(last.pre, last.arg,
                      VectorResults(last.pre, last.arg, RecallEmbedding), now))

\* One answer holds a fact of each stage, while the store holds facts of
\* the user that the filters exclude.
C27_EveryStageContributed ==
    /\ last.op = "recall" /\ last.http = 200
    /\ \E v, l, b, h \in Recalled :
          /\ v \in FromVector
          /\ l \in FromLexical
          /\ b \in Range(_get_balanced_profile_facts(last.pre, last.arg))
                   \ (FromVector \cup FromLexical)
          /\ h \notin FromVector \cup FromLexical
                      \cup Range(_get_balanced_profile_facts(last.pre, last.arg))
    /\ \E id \in FactIds(memory_facts) \ Recalled :
          memory_facts[id].user_id = last.arg.user_id /\ memory_facts[id].superseded_by # NULL
    /\ \E id \in FactIds(memory_facts) \ Recalled :
          memory_facts[id].user_id = last.arg.user_id /\ memory_facts[id].temporal_state = "past"
    /\ \E id \in FactIds(memory_facts) \ Recalled :
          memory_facts[id].user_id = last.arg.user_id /\ memory_facts[id].expires_at # NULL

(***************************************************************************)
(* C28  When max_age_days is given, every fact returned by recall,         *)
(* whichever stage produced it (vector, lexical fill, generic fallback),   *)
(* has created_at >= now - max_age_days.                                   *)
(***************************************************************************)
C28_RecallHonoursMaxAge ==
    (last.op = "recall" /\ last.arg.max_age_days >= 0) =>
        \A id \in Recalled :
            memory_facts[id].created_at >= now - last.arg.max_age_days

(***************************************************************************)
(* C29  When the recall request gives explicit categories, every returned  *)
(* fact has a category in that set, whichever stage produced it (vector,   *)
(* lexical fill, generic fallback), and the intent hints derived from the  *)
(* query do not narrow the result further: while the answer has room, no   *)
(* fact of the set that passes the other filters and reaches the lexical   *)
(* threshold is left out.                                                  *)
(***************************************************************************)
C29_ExplicitCategoriesDecide ==
    (last.op = "recall" /\ last.http = 200 /\ last.arg.categories # {}) =>
        /\ \A id \in Recalled : memory_facts[id].category \in last.arg.categories
        /\ Len(last.result) < last.arg.limit =>
              \A id \in FactIds(memory_facts) :
                  ( /\ memory_facts[id].user_id = last.arg.user_id
                    /\ memory_facts[id].category \in last.arg.categories
                    /\ memory_facts[id].expires_at = NULL
                    /\ last.arg.current_view_only => memory_facts[id].superseded_by = NULL
                    /\ ~last.arg.include_historical => memory_facts[id].temporal_state # "past"
                    /\ last.arg.max_age_days >= 0 =>
                           memory_facts[id].created_at >= now - last.arg.max_age_days
                    /\ token_set_ratio(last.arg.query, memory_facts[id].content) >= 30 )
                  => id \in Recalled

\* The first half of C29 alone.
C29_OnlyListedCategories ==
    (last.op = "recall" /\ last.http = 200 /\ last.arg.categories # {}) =>
        \A id \in Recalled : memory_facts[id].category \in last.arg.categories

(***************************************************************************)
(* C30  In recall, a failure of the query-embedding call (any exception)   *)
(* never produces an error response: the vector stage is skipped and the   *)
(* lexical stage runs over the filtered candidate pool; any other          *)
(* exception raised inside the recall body yields recall_unavailable       *)
(* (503), while authorization and rate-limit failures keep their own       *)
(* 401 / 403 / 429 outcomes.  last.cands holds the key sent, the count the *)
(* limiter read, and the outcomes of the embedding call and of the rest of *)
(* the body.                                                               *)
(***************************************************************************)
C30_RecallFailSoftThenFailFast ==
    last.op = "recall" =>
        LET api_key == last.cands[1]
            current == last.cands[2]
            embed == last.cands[3]
            body == last.cands[4]
            lexical == LexicalFill(last.pre, last.arg, << >>, now)
        IN IF api_key = NoKey THEN last.http = 401
           ELSE IF api_key # KeyOf(last.arg.user_id) THEN last.http = 403
           ELSE IF current > 2 THEN last.http = 429
           ELSE IF body # "ok" THEN last.http = 503 /\ last.status = "recall_unavailable"
           ELSE /\ last.http = 200
                /\ embed # "ok" =>
                      /\ Len(last.result) >= Len(lexical)
                      /\ SubSeq(last.result, 1, Len(lexical)) = lexical
                      /\ ~_is_generic_query(last.arg.query) => last.result = lexical

\* The embedding call has failed and the answer holds what the lexical
\* stage found.
C30_EmbeddingFailedLexicalAnswered ==
    /\ last.op = "recall"
    /\ last.cands[3] # "ok"
    /\ last.http = 200
    /\ last.result # << >>
    /\ ~_is_generic_query(last.arg.query)

(***************************************************************************)
(* C31  A recall request is rejected with a validation error, before any   *)
(* store or LLM access, when its query is empty or consists only of        *)
(* whitespace, or when its limit is 0 or greater than 20.  last.existing   *)
(* holds the query and the limit of the body.                              *)
(***************************************************************************)
C31_BlankQueryOrBadLimitRejected ==
    ( /\ last.op = "recall"
      /\ \/ last.existing[1] \in {"", "   "}
         \/ last.existing[2] = 0
         \/ last.existing[2] > 20 ) =>
        /\ last.http = 422
        /\ last.cands = << >>
        /\ last.result = << >>

\* C31 without the whitespace query.
C31_EmptyQueryOrBadLimitRejected ==
    ( /\ last.op = "recall"
      /\ \/ last.existing[1] = ""
         \/ last.existing[2] = 0
         \/ last.existing[2] > 20 ) =>
        /\ last.http = 422
        /\ last.cands = << >>
        /\ last.result = << >>

\* C32: every job on the queue carries the name of a function registered in
\* the worker (WorkerSettings.functions), whichever producer enqueued it:
\* ingestion, the consolidate endpoint or one of the two cron fan-outs.
C32_QueuedJobsAreRegistered ==
    \A i \in 1..Len(job_queue) : job_queue[i].function \in WorkerFunctions

\* C32, its consequence: the worker never finishes a job without having found
\* a function to run for it.
C32_EveryDispatchRunsAFunction == last.status # "function_not_found"

\* C32, the other producers: every job enqueued by the consolidate endpoint
\* or a cron fan-out names a registered function.
C32_OtherProducersAreRegistered ==
    \A i \in 1..Len(job_queue) :
        job_queue[i].function # "extract_memory_facts" =>
            job_queue[i].function \in WorkerFunctions

\* The last row the last extraction inserted in the slot of row e (or NULL).
LastNewInSlot(e) ==
    LET hits == {n \in NewRows : SlotCompatible(memory_facts[e], memory_facts[n])}
    IN IF hits = {} THEN NULL ELSE Max(hits)

\* C33: at the commit of an extraction, each existing fact in the supersession
\* queue is compared with, and superseded by, the most recently staged new
\* fact of its slot: superseded_by is that fact's id when its confidence is at
\* least the existing confidence minus 0.15 or the existing fact was already
\* superseded, and is unchanged otherwise.
C33_SupersededByMostRecentlyStaged ==
    ExtractionCommitted =>
        \A e \in LoadedRows :
            LET n == LastNewInSlot(e) IN
            (n # NULL /\ _supersedable_category(memory_facts[n].category)) =>
                IF \/ last.pre[e].superseded_by # NULL
                   \/ memory_facts[n].confidence_score >=
                          last.pre[e].confidence_score - SUPERSEDE_CONFIDENCE_BAND
                THEN memory_facts[e].superseded_by = n
                ELSE memory_facts[e].superseded_by = last.pre[e].superseded_by

\* C33 with the first staged fact of the slot in place of the most recent one.
C33_SupersededByFirstStaged ==
    ExtractionCommitted =>
        \A e \in LoadedRows :
            LET n == FirstNewInSlot(e) IN
            (n # NULL /\ _supersedable_category(memory_facts[n].category)) =>
                IF \/ last.pre[e].superseded_by # NULL
                   \/ memory_facts[n].confidence_score >=
                          last.pre[e].confidence_score - SUPERSEDE_CONFIDENCE_BAND
                THEN memory_facts[e].superseded_by = n
                ELSE memory_facts[e].superseded_by = last.pre[e].superseded_by

\* C33: one run has inserted two rows in the slot of a fact it loaded.
C33_TwoStagedInOneSlot ==
    /\ ExtractionCommitted
    /\ \E e \in LoadedRows :
          FirstNewInSlot(e) # NULL /\ FirstNewInSlot(e) # LastNewInSlot(e)

\* C34: supersession and deletion are one-way.  No operation sets a
\* superseded_by or an expires_at that is not NULL back to NULL, and no row
\* leaves the table.
C34_SupersededAndExpiredStaySo ==
    [][ /\ Len(memory_facts') >= Len(memory_facts)
        /\ \A id \in FactIds(memory_facts) :
              /\ memory_facts[id].superseded_by # NULL =>
                     memory_facts'[id].superseded_by # NULL
              /\ memory_facts[id].expires_at # NULL =>
                     memory_facts'[id].expires_at # NULL ]_vars

\* C34: the last operation wrote to a fact that was superseded before it, and
\* a deleted fact has been through a later operation.
C34_SupersededFactWritten ==
    /\ \E id \in DOMAIN last.pre :
          /\ last.pre[id].superseded_by # NULL
          /\ memory_facts[id] # last.pre[id]
    /\ \E id \in DOMAIN last.pre : last.pre[id].expires_at # NULL

\* The last request was a generic query without explicit categories, and it
\* was answered.
GenericAnswered ==
    /\ last.op = "recall" /\ last.http = 200
    /\ _is_generic_query(last.arg.query)
    /\ last.arg.categories = {}

\* The facts of the user that pass the filters of the request, are similar
\* enough to the query for the lexical stage and were not returned by the
\* vector stage, whatever their category; best first.
LexicalEligible ==
    LET facts == last.pre
        request == last.arg
        hits == {id \in FactIds(facts) :
                    /\ RecallFilters(facts, id, request)
                    /\ request.max_age_days # NoAge =>
                           facts[id].created_at >= now - request.max_age_days
                    /\ id \notin FromVector
                    /\ token_set_ratio(request.query, facts[id].content)
                           >= MIN_FUZZY_SIMILARITY}
        score(id) == _fuzzy_score(request.query, facts[id].content, facts[id].confidence_score)
    IN SortBy(hits, [a, b \in hits |->
                        \/ score(a) > score(b)
                        \/ (score(a) = score(b) /\ CreatedDesc(facts, a, b))])

\* C35: for a generic query without explicit categories the hinted categories
\* restrict no stage.  The vector stage returns facts of any category, and
\* the lexical fill that follows it returns the most similar remaining facts
\* of any category, before the generic fallback adds its own.
C35_GenericQueryIgnoresHints ==
    GenericAnswered =>
        LET vector == VectorResults(last.pre, last.arg, RecallEmbedding)
            room == last.arg.limit - Len(vector)
        IN /\ SubSeq(last.result, 1, Len(vector)) = vector
           /\ \A k \in 1..Min({room, Len(LexicalEligible)}) :
                 last.result[Len(vector) + k] = LexicalEligible[k]

\* C35: a generic query with a hint was answered with a fact outside the
\* hinted categories by the fallback.
C35_FallbackOutsideHints ==
    /\ GenericAnswered
    /\ _hint_categories(last.arg.query) # {}
    /\ \E id \in Recalled :
          /\ last.pre[id].category \notin _hint_categories(last.arg.query)
          /\ id \notin FromVector \cup FromLexical

\* C36: a candidate whose confidence is below 0.5 is dropped before the
\* duplicate search.  Every row an extraction inserts comes from a candidate
\* at 0.5 or more and has that confidence; an existing row changes only
\* because such a candidate duplicates it or because a row inserted for such
\* a candidate supersedes it; a response of low-confidence candidates only
\* leaves the table as it was.
C36_LowConfidenceCandidateDropped ==
    ExtractionCommitted =>
        /\ \A n \in NewRows :
              /\ memory_facts[n].confidence_score >= MIN_CONFIDENCE_TO_SAVE
              /\ \E i \in SavedCands :
                    /\ memory_facts[n].content =
                           normalize_fact(last.cands[i].content, last.cands[i].category)
                    /\ memory_facts[n].confidence_score = last.cands[i].confidence
        /\ \A d \in FactIds(last.pre) :
              memory_facts[d] # last.pre[d] =>
                  \/ Refreshers(d) # {}
                  \/ /\ memory_facts[d].superseded_by \in NewRows
                     /\ [memory_facts[d] EXCEPT !.superseded_by = last.pre[d].superseded_by]
                            = last.pre[d]
        /\ SavedCands = {} => memory_facts = last.pre

\* C36: the response of a committed run held a low-confidence candidate that
\* duplicates a loaded fact and another that falls, within the confidence
\* band, in the slot of a loaded fact.
C36_LowCandidatesMatchedStoredFacts ==
    /\ ExtractionCommitted
    /\ \E i, j \in (1..Len(last.cands)) \ SavedCands :
          /\ RefreshTarget(i) # NULL
          /\ RefreshTarget(j) = NULL
          /\ \E e \in LoadedRows :
                /\ _same_slot(last.pre[e], last.cands[j].category, last.cands[j].slot_hint)
                /\ _should_supersede(last.pre[e], last.cands[j].confidence)

\* C37: a recall response holds at most request.limit facts and no fact
\* twice, whichever stages contributed to it.
C37_AtMostLimitNoRepeats ==
    (last.op = "recall" /\ last.http = 200) =>
        /\ Len(last.result) <= last.arg.limit
        /\ \A i, j \in 1..Len(last.result) : i # j => last.result[i] # last.result[j]

\* C37: an answer of several stages is full, the store holds more facts the
\* filters let through than the limit, and a fact of the answer was offered
\* by two stages.
C37_FullAnswerWithOverlap ==
    /\ last.op = "recall" /\ last.http = 200
    /\ Len(last.result) = last.arg.limit
    /\ Cardinality({id \in FactIds(last.pre) : RecallFilters(last.pre, id, last.arg)})
           > last.arg.limit
    /\ FromLexical # {}
    /\ \E id \in FromVector \cup FromLexical :
          id \in Range(_get_balanced_profile_facts(last.pre, last.arg))
    /\ Recalled \ (FromVector \cup FromLexical) # {}

\* C38: once every extraction job that ingestion enqueued has run, every
\* persisted message has been in the window of at least one run, also when
\* several messages of a session were ingested before any job ran.
C38_EveryMessageInSomeWindow ==
    job_queue = << >> => \A m \in 1..Len(chat_logs) : m \in workers

\* C38 for the messages that are still among the last WINDOW_SIZE of their
\* session when the queue is empty.
C38_LastMessagesInSomeWindow ==
    job_queue = << >> =>
        \A s \in DOMAIN sessions : Range(SessionWindow(chat_logs, s)) \subseteq workers

\* C38: the queue has been emptied after messages were ingested while jobs
\* were waiting.
C38_BacklogDrained ==
    /\ job_queue = << >>
    /\ Len(chat_logs) > 4
    /\ workers # {}

\* The rows that stand for candidate i after the commit: the row inserted for
\* it, or the loaded row it duplicated.
RepresentedBy(i) ==
    LET content == normalize_fact(last.cands[i].content, last.cands[i].category) IN
    IF RefreshTarget(i) # NULL THEN {RefreshTarget(i)}
    ELSE {n \in NewRows : memory_facts[n].content = content}

\* C39: after an extraction commit every candidate that passed the
\* confidence threshold is represented by an active fact: a row inserted for
\* it, or the existing row it refreshed, with superseded_by NULL.
C39_SavedCandidateHasActiveFact ==
    ExtractionCommitted =>
        \A i \in SavedCands :
            \E id \in RepresentedBy(i) : memory_facts[id].superseded_by = NULL

\* C39, second half: no candidate is absorbed as a duplicate of a fact that
\* was superseded before the run.
C39_NoDuplicateOfSupersededFact ==
    ExtractionCommitted =>
        \A i \in SavedCands :
            RefreshTarget(i) # NULL => last.pre[RefreshTarget(i)].superseded_by = NULL

\* C39 for the candidates that duplicate no loaded fact: each has its own
\* inserted row, active after the commit.
C39_InsertedCandidateIsActive ==
    ExtractionCommitted =>
        \A i \in SavedCands :
            RefreshTarget(i) = NULL =>
                \E n \in NewRows :
                    /\ memory_facts[n].content =
                           normalize_fact(last.cands[i].content, last.cands[i].category)
                    /\ IsActive(memory_facts[n])

\* The request a client sends by default: the current view, without
\* historical facts.
CurrentViewRequest(user_id) == RecallRequest(user_id, WhereDoILive, DEFAULT_LIMIT, {}, FALSE, TRUE, NoAge)

\* C40: a newly extracted past fact never supersedes an existing active
\* current fact.  A fact that was active and current before an extraction run
\* is not superseded by a row of temporal_state past that the run inserted;
\* unless a newer current fact superseded it, it is still active after the
\* commit and passes the filters of a recall with include_historical = false.
C40_PastFactNeverSupersedesCurrent ==
    ExtractionCommitted =>
        \A e \in FactIds(last.pre) :
            (IsActive(last.pre[e]) /\ last.pre[e].temporal_state = CURRENT) =>
                IF memory_facts[e].superseded_by \in NewRows
                THEN memory_facts[memory_facts[e].superseded_by].temporal_state # PAST
                ELSE /\ IsActive(memory_facts[e])
                     /\ RecallFilters(memory_facts, e, CurrentViewRequest(last.pre[e].user_id))

\* C40, its consequence for the reader of the memory: a slot that held a fact
\* visible in the current view before an extraction run holds one after it.
C40_SlotKeepsAVisibleFact ==
    ExtractionCommitted =>
        \A e \in FactIds(last.pre) :
            RecallFilters(last.pre, e, CurrentViewRequest(last.pre[e].user_id)) =>
                \E id \in FactIds(memory_facts) :
                    /\ SlotCompatible(memory_facts[e], memory_facts[id])
                    /\ RecallFilters(memory_facts, id, CurrentViewRequest(last.pre[e].user_id))

====
